---- MODULE Spec2Model ----
(***************************************************************************)
(* A model of the SDF glyph rasterization pipeline of sdf-text:            *)
(* curve.rs (Vec2, line primitives), rasterizer.rs (Rasterizer),           *)
(* mindist.rs (OutlineDistance), font.rs (Glyph::from_face,                *)
(* Glyph::render_sdf, Font) and examples/glyph.rs (glyph_to_image).        *)
(*                                                                         *)
(* Numbers.  An f32 coordinate is modelled exactly, in fixed point with    *)
(* one fractional bit: the integer n stands for the value n/2, so that     *)
(* pixel centres (k + 0.5) are representable.  The x of a crossing and a   *)
(* squared distance are exact rationals [num, den] in the same unit.       *)
(* Rounding of f32 arithmetic is not modelled.                             *)
(***************************************************************************)
EXTENDS Integers, Sequences, FiniteSets, TLC

VARIABLES
    linear_profiles,    \* Rasterizer.linear_profiles
    linear_segments,    \* OutlineDistance.linear_segments
    y,                  \* the scanline of the latest scanline_crossings call
    crossings,          \* the Vec<OrientedCrossing> that call returned
    outline,            \* the glyph's outline: a sequence of closed contours
    reverse_fill,       \* render_sdf: outline_flags & 0x4
    glyph,              \* the Glyph being rendered
    pc,                 \* the operation performed last (render_sdf: the position in it)
    ci, si,             \* render_sdf: contour and curve being ingested
    p0,                 \* render_sdf: start point of the next curve
    yr, xr,             \* render_sdf: row and column of the pixel
    crossings_idx, wn,  \* render_sdf: crossings consumed so far, winding number
    inside, dist_min,   \* render_sdf: the pixel's inside flag and signed distance
    buffer,             \* the bitmap render_sdf writes (Font.buffer in a build)
    font,               \* Font: width, height and the glyphs map
    chars,              \* build_from_face: the chars argument
    chi,                \* build_from_face: the number of characters processed
    packer,             \* build_from_face: the rectangles the packer has handed out
    calls,              \* the number of build_from_face calls made so far
    quadratic_profiles, \* Rasterizer.quadratic_profiles
    cubic_profiles,     \* Rasterizer.cubic_profiles
    quadratic_segments, \* OutlineDistance.quadratic_segments
    cubic_segments,     \* OutlineDistance.cubic_segments
    mp,                 \* the argument of the latest OutlineDistance::distance call
    depth               \* the deepest push_bezier3 activation of the latest call

vars == <<linear_profiles, linear_segments, y, crossings, outline, reverse_fill,
          glyph, pc, ci, si, p0, yr, xr, crossings_idx, wn, inside, dist_min,
          buffer, font, chars, chi, packer, calls, quadratic_profiles,
          cubic_profiles, quadratic_segments, cubic_segments, mp, depth>>

font_vars == <<font, chars, chi, packer, calls>>

\* the curve vectors of Rasterizer and OutlineDistance, and the distance query
curve_vars == <<quadratic_profiles, cubic_profiles, quadratic_segments,
                cubic_segments, mp, depth>>

glyph_vars == <<linear_segments, outline, reverse_fill, glyph, ci, si, p0,
                yr, xr, crossings_idx, wn, inside, dist_min, buffer, font_vars,
                curve_vars>>

----------------------------------------------------------------------------
(* Bounds of the model *)

\* Rasterizer API runs store at most this many profiles
MaxProfiles == 2

\* a contour of an input outline has at most this many points
MaxPts == 4

\* a chars argument of build_from_face has at most this many characters
MaxChars == 2

\* at most this many build_from_face calls are made on a Font
MaxCalls == 2

\* the padding argument of Glyph::from_face
Padding == 1

\* OutlineDistance API runs push at most this many segments
MaxSegments == 2

\* Rasterizer API runs push curves while fewer than this many curve profiles
\* are stored
MaxCurveProfiles == 1

----------------------------------------------------------------------------
(* Numbers *)

\* the f32 with the integer value n
F(n) == 2 * n

\* the f32 0.5
Half == 1

Abs(n) == IF n < 0 THEN -n ELSE n

RECURSIVE GCD(_, _)
GCD(a, b) == IF b = 0 THEN a ELSE GCD(b, a % b)

Sign(n) == IF n < 0 THEN -1 ELSE IF n > 0 THEN 1 ELSE 0

\* the rational n/d in lowest terms with a positive denominator; n/0 is an
\* infinity and 0/0 is NaN, as in f32 division
Rat(n, d) ==
    IF d = 0 THEN [num |-> Sign(n), den |-> 0]
    ELSE LET g == GCD(Abs(n), Abs(d))
             s == IF d < 0 THEN -1 ELSE 1
         IN  [num |-> s * (n \div g), den |-> s * (d \div g)]

RatOfInt(n) == [num |-> n, den |-> 1]

IsNaN(q) == q.den = 0 /\ q.num = 0

\* f32::INFINITY
Infinity == [num |-> 1, den |-> 0]

\* f32 comparisons: false when either side is NaN
RatLeq(a, b) == ~IsNaN(a) /\ ~IsNaN(b) /\ a.num * b.den <= b.num * a.den
RatLt(a, b)  == ~IsNaN(a) /\ ~IsNaN(b) /\ a.num * b.den <  b.num * a.den

\* f32 arithmetic without its rounding: infinity - infinity and 0 * infinity
\* are NaN, x / 0 is an infinity or NaN
\* (each operand is evaluated once: u and v are its value)
Only(S) == CHOOSE v \in S : TRUE

RatAdd(a, b) ==
    Only({Rat(u.num * v.den + v.num * u.den, u.den * v.den) : u \in {a}, v \in {b}})
RatNeg(a)    == Only({[num |-> -u.num, den |-> u.den] : u \in {a}})
RatSub(a, b) == RatAdd(a, RatNeg(b))
RatMul(a, b) == Only({Rat(u.num * v.num, u.den * v.den) : u \in {a}, v \in {b}})
RatDiv(a, b) == Only({Rat(u.num * v.den, u.den * v.num) : u \in {a}, v \in {b}})

\* f32::is_finite
is_finite(q) == q.den # 0

\* floor(sqrt(n)) of a natural number n
RECURSIVE ISqrtIn(_, _, _)
ISqrtIn(n, lo, hi) ==
    IF lo >= hi THEN lo
    ELSE LET mid == (lo + hi + 1) \div 2
         IN  IF mid * mid <= n THEN ISqrtIn(n, mid, hi) ELSE ISqrtIn(n, lo, mid - 1)

ISqrt(n) == ISqrtIn(n, 0, IF n < 46340 THEN n ELSE 46340)

----------------------------------------------------------------------------
(* curve.rs *)

Vec2(x, yy) == [y |-> yy, x |-> x]

Sub(a, b) == Vec2(a.x - b.x, a.y - b.y)

Dot(a, b) == a.x * b.x + a.y * b.y

\* x of the intersection of the scanline at sy with the line p0-p1
line_intersection(sy, q0, q1) ==
    Rat(q0.x * (q1.y - q0.y) + (sy - q0.y) * (q1.x - q0.x), q1.y - q0.y)

----------------------------------------------------------------------------
(* rasterizer.rs *)

OrientedCrossing(dir, x) == [dir |-> dir, x |-> x]

LinearProfile(dir, q0, q1) == [dir |-> dir, p0 |-> q0, p1 |-> q1]

\* mutant: the top endpoint is claimed too
InYRangeClosed(sy, lo, hi) == sy >= lo /\ sy <= hi

\* mutant: half-open at the bottom instead of the top
InYRangeTopClosed(sy, lo, hi) == sy > lo /\ sy <= hi

\* the Y-range test of scanline_crossings: half-open at the top
InYRange(sy, lo, hi) == sy >= lo /\ sy < hi

\* the position at which a stable sort places c in the sorted list s
RECURSIVE InsertSorted(_, _)
InsertSorted(s, c) ==
    IF s = <<>> THEN <<c>>
    ELSE IF RatLt(c.x, s[Len(s)].x)
         THEN Append(InsertSorted(SubSeq(s, 1, Len(s) - 1), c), s[Len(s)])
         ELSE Append(s, c)

RECURSIVE StableSort(_)
StableSort(cs) ==
    IF cs = <<>> THEN <<>>
    ELSE InsertSorted(StableSort(SubSeq(cs, 1, Len(cs) - 1)), cs[Len(cs)])

\* mutant: the list is returned in profile order
SortCrossingsNone(cs) == cs

\* crossings.sort_by(|a, b| a.x.partial_cmp(&b.x).unwrap())
SortCrossings(cs) == StableSort(cs)

\* the loop over linear_profiles of scanline_crossings
LinearCrossings(profiles, sy) ==
    LET hit == SelectSeq(profiles,
                         LAMBDA prf : InYRange(sy, prf.p0.y, prf.p1.y))
    IN  [k \in 1..Len(hit) |->
            OrientedCrossing(hit[k].dir,
                             line_intersection(sy, hit[k].p0, hit[k].p1))]

scanline_crossings(profiles, sy) == SortCrossings(LinearCrossings(profiles, sy))

\* mutant: the endpoints are stored in the caller's order
push_line_unordered(profiles, q0, q1) ==
    IF q0.y < q1.y THEN Append(profiles, LinearProfile(1, q0, q1))
    ELSE IF q1.y < q0.y THEN Append(profiles, LinearProfile(-1, q0, q1))
    ELSE profiles

\* mutant: a horizontal line is stored
push_line_horizontal(profiles, q0, q1) ==
    IF q0.y <= q1.y THEN Append(profiles, LinearProfile(1, q0, q1))
    ELSE Append(profiles, LinearProfile(-1, q1, q0))

\* mutant: dir is the same for both directions
push_line_one_dir(profiles, q0, q1) ==
    IF q0.y < q1.y THEN Append(profiles, LinearProfile(1, q0, q1))
    ELSE IF q1.y < q0.y THEN Append(profiles, LinearProfile(1, q1, q0))
    ELSE profiles

\* mutant: dir = -1 for the line going up
push_line_swapped_dir(profiles, q0, q1) ==
    IF q0.y < q1.y THEN Append(profiles, LinearProfile(-1, q0, q1))
    ELSE IF q1.y < q0.y THEN Append(profiles, LinearProfile(1, q1, q0))
    ELSE profiles

\* Rasterizer::push_line: linear_profiles after the call
push_line(profiles, q0, q1) ==
    IF q0.y < q1.y THEN Append(profiles, LinearProfile(1, q0, q1))
    ELSE IF q1.y < q0.y THEN Append(profiles, LinearProfile(-1, q1, q0))
    ELSE profiles

----------------------------------------------------------------------------
(* The Rasterizer driven through its public interface *)

\* the points and scanlines the caller uses
ApiPoints == {Vec2(F(x), F(yy)) : x \in {0, 10}, yy \in {0, 5, 10}}
ApiScanlines == {F(k) : k \in 0..10}

\* no quadratic or cubic curve has been pushed, no distance asked
CurveIdle ==
    /\ quadratic_profiles = <<>>
    /\ cubic_profiles = <<>>
    /\ quadratic_segments = <<>>
    /\ cubic_segments = <<>>
    /\ mp = Vec2(0, 0)
    /\ depth = 0

\* no Font is being built
FontIdle ==
    /\ font = [width |-> 0, height |-> 0, glyphs |-> <<>>]
    /\ chars = <<>>
    /\ chi = 0
    /\ packer = {}
    /\ calls = 0

\* render_sdf's variables before any glyph is rendered
GlyphIdle ==
    /\ linear_segments = <<>>
    /\ outline = <<>>
    /\ reverse_fill = FALSE
    /\ glyph = [x |-> 0, y |-> 0, width |-> 0, height |-> 0, xmin |-> 0, ymin |-> 0]
    /\ ci = 0 /\ si = 0
    /\ p0 = Vec2(0, 0)
    /\ yr = 0 /\ xr = 0
    /\ crossings_idx = 0 /\ wn = 0
    /\ inside = FALSE
    /\ dist_min = [neg |-> FALSE, sq |-> RatOfInt(0)]
    /\ buffer = <<>>
    /\ FontIdle
    /\ CurveIdle

\* Rasterizer::new()
Init ==
    /\ linear_profiles = <<>>
    /\ y = 0
    /\ crossings = <<>>
    /\ pc = "new"
    /\ GlyphIdle

\* a call rasterizer.push_line(q0, q1)
PushLine(q0, q1) ==
    /\ Len(linear_profiles) < MaxProfiles
    /\ linear_profiles' = push_line(linear_profiles, q0, q1)
    /\ y' = 0
    /\ crossings' = <<>>
    /\ pc' = "push_line"
    /\ UNCHANGED glyph_vars

\* a call rasterizer.scanline_crossings(sy)
ScanlineCrossings(sy) ==
    /\ y' = sy
    /\ crossings' = scanline_crossings(linear_profiles, sy)
    /\ pc' = "scanline_crossings"
    /\ UNCHANGED linear_profiles
    /\ UNCHANGED glyph_vars

Next ==
    \/ \E q0, q1 \in ApiPoints : PushLine(q0, q1)
    \/ \E sy \in ApiScanlines : ScanlineCrossings(sy)

Spec == Init /\ [][Next]_vars

----------------------------------------------------------------------------
(* curve.rs, mindist.rs: distances.  A distance is kept as the exact       *)
(* rational under its square root: the value q stands for sqrt(q).         *)

LinearSegment(q0, q1) == [p0 |-> q0, p1 |-> q1]

Clamp01(n, d) == IF n < 0 THEN 0 ELSE IF n > d THEN d ELSE n

\* mutant: a segment with no Y extent is at an infinite distance
LinearSegment_distance_skipping_flat(sgt, p) ==
    IF sgt.p0.y = sgt.p1.y THEN [num |-> 1, den |-> 0]
    ELSE LET m  == Sub(p, sgt.p0)
             a  == Sub(sgt.p1, sgt.p0)
             aa == Dot(a, a)
             tn == Clamp01(Dot(m, a), aa)
             v  == Vec2(tn * a.x - aa * m.x, tn * a.y - aa * m.y)
         IN  Rat(Dot(v, v), aa * aa)

\* mutant: the distance to the line through the segment, t not clamped
LinearSegment_distance_unclamped(sgt, p) ==
    LET m  == Sub(p, sgt.p0)
        a  == Sub(sgt.p1, sgt.p0)
        aa == Dot(a, a)
        td == IF aa = 0 THEN 1 ELSE aa
        tn == IF aa = 0 THEN 0 ELSE Dot(m, a)
        v  == Vec2(tn * a.x - td * m.x, tn * a.y - td * m.y)
    IN  Rat(Dot(v, v), td * td)

\* LinearSegment::distance.  t = (m.a / a.a).max(0.0).min(1.0) is tn/aa; for
\* a segment of length zero 0/0 is NaN, and NaN.max(0.0) is 0.0.
LinearSegment_distance(sgt, p) ==
    LET m  == Sub(p, sgt.p0)
        a  == Sub(sgt.p1, sgt.p0)
        aa == Dot(a, a)
        td == IF aa = 0 THEN 1 ELSE aa
        tn == IF aa = 0 THEN 0 ELSE Clamp01(Dot(m, a), aa)
        \* (x - p) * td, where x = p0 + t * a
        v  == Vec2(tn * a.x - td * m.x, tn * a.y - td * m.y)
    IN  Rat(Dot(v, v), td * td)

\* OutlineDistance::distance: the loop over linear_segments
RECURSIVE MinDistance(_, _, _)
MinDistance(segments, p, dm) ==
    IF segments = <<>> THEN dm
    ELSE LET dist == LinearSegment_distance(Head(segments), p)
         IN  MinDistance(Tail(segments), p, IF RatLt(dist, dm) THEN dist ELSE dm)

\* mutant: dist_min starts from 0.0
OutlineDistance_distance_from_zero(segments, p) == MinDistance(segments, p, RatOfInt(0))

OutlineDistance_distance(segments, p) == MinDistance(segments, p, Infinity)

\* the roots crate, by its contract: the real roots in ascending order.  A
\* root is kept as an exact rational; the equations the model solves are the
\* ones whose real roots are rational (IsSquare of the discriminant).
find_roots_linear(a1, a0) ==
    IF RatOfInt(0) = a1
    THEN IF RatOfInt(0) = a0 THEN <<RatOfInt(0)>> ELSE <<>>
    ELSE <<RatDiv(RatNeg(a0), a1)>>

IsSquare(n) == n >= 0 /\ ISqrt(n) * ISqrt(n) = n

\* the discriminant a1^2 - 4 a2 a0 as a fraction of integers
Discriminant(a2, a1, a0) == RatSub(RatMul(a1, a1), RatMul(RatOfInt(4), RatMul(a2, a0)))

\* the real roots of a2 t^2 + a1 t + a0 are rational
RationalRoots(a2, a1, a0) ==
    LET d == Discriminant(a2, a1, a0)
    IN  RatOfInt(0) = a2 \/ d.num < 0 \/ (IsSquare(d.num) /\ IsSquare(d.den))

find_roots_quadratic(a2, a1, a0) ==
    IF RatOfInt(0) = a2 THEN find_roots_linear(a1, a0)
    ELSE Only({
        IF d.num < 0 THEN <<>>
        ELSE Only({
            IF d.num = 0 THEN <<RatDiv(RatNeg(a1), RatMul(RatOfInt(2), a2))>>
            ELSE Only({IF RatLt(r1, r2) THEN <<r1, r2>> ELSE <<r2, r1>> :
                         r1 \in {RatDiv(RatSub(RatNeg(a1), s), RatMul(RatOfInt(2), a2))},
                         r2 \in {RatDiv(RatAdd(RatNeg(a1), s), RatMul(RatOfInt(2), a2))}}) :
            s \in {Rat(CHOOSE r \in 0..d.num : r * r = d.num,
                       CHOOSE r \in 1..d.den : r * r = d.den)}}) :
        d \in {Discriminant(a2, a1, a0)}})

\* a point with rational coordinates
RVec2(q) == Vec2(RatOfInt(q.x), RatOfInt(q.y))

RSub(a, b) == Vec2(RatSub(a.x, b.x), RatSub(a.y, b.y))

RDot(a, b) == RatAdd(RatMul(a.x, b.x), RatMul(a.y, b.y))

\* Vec2::lerp: (1.0 - t) * self + t * other
lerp(a, b, t) ==
    Only({Vec2(RatAdd(RatMul(tc, u.x), RatMul(w, v.x)),
               RatAdd(RatMul(tc, u.y), RatMul(w, v.y))) :
            u \in {a}, v \in {b}, w \in {t}, tc \in {RatSub(RatOfInt(1), t)}})

\* the candidates loop of the segment distances: the least squared distance
\* from p to the candidate points
RECURSIVE LeastDistance(_, _, _)
LeastDistance(candidates, q, dm) ==
    IF candidates = <<>> THEN dm
    ELSE LET x    == RSub(Head(candidates), RVec2(q))
             dist == RDot(x, x)
         IN  LeastDistance(Tail(candidates), q, IF RatLt(dist, dm) THEN dist ELSE dm)

\* the roots a distance keeps: those in [0, 1]
RECURSIVE RootsIn01(_)
RootsIn01(ts) ==
    IF ts = <<>> THEN <<>>
    ELSE LET t == Head(ts)
         IN  (IF RatLeq(RatOfInt(0), t) /\ RatLeq(t, RatOfInt(1)) THEN <<t>> ELSE <<>>)
             \o RootsIn01(Tail(ts))

QuadraticSegment(q0, q1, q2) == [p0 |-> q0, p1 |-> q1, p2 |-> q2]

\* QuadraticSegment::eval_point
QuadraticSegment_eval_point(sgt, t) ==
    LET tc == RatSub(RatOfInt(1), t)
        w0 == RatMul(tc, tc)
        w1 == RatMul(RatOfInt(2), RatMul(tc, t))
        w2 == RatMul(t, t)
    IN  Vec2(RatAdd(RatAdd(RatMul(w0, RatOfInt(sgt.p0.x)), RatMul(w1, RatOfInt(sgt.p1.x))),
                    RatMul(w2, RatOfInt(sgt.p2.x))),
             RatAdd(RatAdd(RatMul(w0, RatOfInt(sgt.p0.y)), RatMul(w1, RatOfInt(sgt.p1.y))),
                    RatMul(w2, RatOfInt(sgt.p2.y))))

\* QuadraticSegment::distance.  The segments the model measures have
\* b = 0 (their control point is the middle of the chord), which leaves
\* a1 t + a0 = 0 of the cubic equation: find_roots_cubic hands an
\* equation with a3 = 0 to find_roots_quadratic.
QuadraticSegment_distance(sgt, q) ==
    LET m  == Sub(sgt.p0, q)
        a  == Sub(sgt.p1, sgt.p0)
        b  == Sub(Sub(sgt.p2, sgt.p1), a)
        a3 == Dot(b, b)
        a2 == 3 * Dot(a, b)
        a1 == 2 * Dot(a, a) + Dot(m, b)
        a0 == Dot(m, a)
        ts == IF a3 = 0
              THEN find_roots_quadratic(RatOfInt(a2), RatOfInt(a1), RatOfInt(a0))
              ELSE CHOOSE irrational \in {} : TRUE
        candidates == [i \in 1..Len(RootsIn01(ts)) |->
                          QuadraticSegment_eval_point(sgt, RootsIn01(ts)[i])]
                      \o <<RVec2(sgt.p0), RVec2(sgt.p2)>>
    IN  LeastDistance(candidates, q, Infinity)

CubicSegment(q0, q1, q2, q3) == [p0 |-> q0, p1 |-> q1, p2 |-> q2, p3 |-> q3]

\* the control points of the cubic are evenly spaced on its chord: the
\* curve is B(t) = p0 + t (p3 - p0) and its tangent is p3 - p0 everywhere
EvenlySpaced(sgt) ==
    LET d == Sub(sgt.p3, sgt.p0)
    IN  /\ 3 * (sgt.p1.x - sgt.p0.x) = d.x /\ 3 * (sgt.p1.y - sgt.p0.y) = d.y
        /\ 3 * (sgt.p2.x - sgt.p0.x) = 2 * d.x /\ 3 * (sgt.p2.y - sgt.p0.y) = 2 * d.y

\* CubicSegment::eval_point
CubicSegment_eval_point(sgt, t) ==
    LET tc == RatSub(RatOfInt(1), t)
        w0 == RatMul(tc, RatMul(tc, tc))
        w1 == RatMul(RatOfInt(3), RatMul(tc, RatMul(tc, t)))
        w2 == RatMul(RatOfInt(3), RatMul(tc, RatMul(t, t)))
        w3 == RatMul(t, RatMul(t, t))
    IN  Vec2(RatAdd(RatAdd(RatMul(w0, RatOfInt(sgt.p0.x)), RatMul(w1, RatOfInt(sgt.p1.x))),
                    RatAdd(RatMul(w2, RatOfInt(sgt.p2.x)), RatMul(w3, RatOfInt(sgt.p3.x)))),
             RatAdd(RatAdd(RatMul(w0, RatOfInt(sgt.p0.y)), RatMul(w1, RatOfInt(sgt.p1.y))),
                    RatAdd(RatMul(w2, RatOfInt(sgt.p2.y)), RatMul(w3, RatOfInt(sgt.p3.y)))))

\* CubicSegment::distance.  The segments the model measures are
\* EvenlySpaced: f(t) = (B(t) - p) . B'(t) is then f0 + t f1 with
\* f0 = (p0 - p) . d and f1 = d . d.  find_root_brent(a, b) fails on an
\* interval whose ends do not bracket a root and returns the root of the
\* interval otherwise; f = 0 everywhere when the segment is a single point.
CubicSegment_distance(sgt, q) ==
    LET d     == Sub(sgt.p3, sgt.p0)
        f0    == Dot(Sub(sgt.p0, q), d)
        f1    == Dot(d, d)
        steps == 15
        f(k)  == steps * f0 + k * f1      \* f(k / steps) * steps
        found == {k \in 1..steps : f(k - 1) * f(k) <= 0}
        ts    == IF ~EvenlySpaced(sgt) THEN CHOOSE irrational \in {} : TRUE
                 ELSE IF found = {} THEN <<>>
                 ELSE IF f1 = 0 THEN <<RatOfInt(0)>>
                 ELSE <<Rat(-f0, f1)>>
        candidates == [i \in 1..Len(ts) |-> CubicSegment_eval_point(sgt, ts[i])]
                      \o <<RVec2(sgt.p0), RVec2(sgt.p3)>>
    IN  LeastDistance(candidates, q, Infinity)

OutlineDistance(lin, quad, cub) ==
    [linear_segments |-> lin, quadratic_segments |-> quad, cubic_segments |-> cub]

\* OutlineDistance::push_line, push_bezier2, push_bezier3
OutlineDistance_push_line(od, q0, q1) ==
    [od EXCEPT !.linear_segments = Append(@, LinearSegment(q0, q1))]

OutlineDistance_push_bezier2(od, q0, q1, q2) ==
    [od EXCEPT !.quadratic_segments = Append(@, QuadraticSegment(q0, q1, q2))]

OutlineDistance_push_bezier3(od, q0, q1, q2, q3) ==
    [od EXCEPT !.cubic_segments = Append(@, CubicSegment(q0, q1, q2, q3))]

\* the three loops of OutlineDistance::distance
RECURSIVE MinQuadratic(_, _, _)
MinQuadratic(segments, q, dm) ==
    IF segments = <<>> THEN dm
    ELSE LET dist == QuadraticSegment_distance(Head(segments), q)
         IN  MinQuadratic(Tail(segments), q, IF RatLt(dist, dm) THEN dist ELSE dm)

RECURSIVE MinCubic(_, _, _)
MinCubic(segments, q, dm) ==
    IF segments = <<>> THEN dm
    ELSE LET dist == CubicSegment_distance(Head(segments), q)
         IN  MinCubic(Tail(segments), q, IF RatLt(dist, dm) THEN dist ELSE dm)

\* mutant: the distance to the linear segments alone
distance_to_lines(od, q) == MinDistance(od.linear_segments, q, Infinity)

\* OutlineDistance::distance
distance(od, q) ==
    MinCubic(od.cubic_segments, q,
        MinQuadratic(od.quadratic_segments, q,
            MinDistance(od.linear_segments, q, Infinity)))

----------------------------------------------------------------------------
(* font.rs *)

\* the face: its em size and the face_size argument
Face == [em_size |-> 2048, face_size |-> 16]

\* unit_size = face.em_size() as f32 * 64. / face_size as f32
unit_size == (Face.em_size * 64) \div Face.face_size

\* vec2_from_ft: a 26.6 point divided by unit_size (the points of the
\* outlines below are multiples of unit_size / 2, so the quotient is exact)
vec2_from_ft(p, unit) == Vec2(F(p.x) \div unit, F(p.y) \div unit)

SetMin(S) == CHOOSE m \in S : \A n \in S : m <= n
SetMax(S) == CHOOSE m \in S : \A n \in S : m >= n

\* get_cbox of an outline of lines: the box of its points
CBox(o) ==
    LET pts == UNION {{o[c][k] : k \in 1..Len(o[c])} : c \in 1..Len(o)}
    IN  IF pts = {} THEN [xMin |-> 0, yMin |-> 0, xMax |-> 0, yMax |-> 0]
        ELSE [xMin |-> SetMin({p.x : p \in pts}), yMin |-> SetMin({p.y : p \in pts}),
              xMax |-> SetMax({p.x : p \in pts}), yMax |-> SetMax({p.y : p \in pts})]

\* mutant: (v / unit_size).floor()
RoundDownToPixel(v, unit) == v \div unit

\* (v / unit_size + 0.5).floor()
RoundToPixel(v, unit) == (2 * v + unit) \div (2 * unit)

\* Glyph::from_face
Glyph_from_face(o, padding) ==
    LET bbox == CBox(o)
        xmin == RoundToPixel(bbox.xMin, unit_size)
        ymin == RoundToPixel(bbox.yMin, unit_size)
        xmax == RoundToPixel(bbox.xMax, unit_size)
        ymax == RoundToPixel(bbox.yMax, unit_size)
    IN  [x |-> 0, y |-> 0,
         width  |-> (xmax - xmin) + 2 * padding,
         height |-> (ymax - ymin) + 2 * padding,
         xmin |-> xmin - padding,
         ymin |-> ymin - padding]

\* the curves of a contour: a line to each following point, and the line
\* that closes the contour at its start
NumCurves(contour) == Len(contour)
CurveEnd(contour, k) == IF k < Len(contour) THEN contour[k + 1] ELSE contour[1]

\* mutant: rows bottom-up
RowYBottomUp(g, r) == F(g.ymin + r) + Half

\* let y = (self.ymin + (self.height - yr - 1) as isize) as f32 + 0.5
RowY(g, r) == F(g.ymin + (g.height - r - 1)) + Half

\* let x = (self.xmin + xr as isize) as f32 + 0.5
PixelX(g, c) == F(g.xmin + c) + Half

\* mutant: a crossing at the pixel centre is not counted yet
CrossingStrictlyLeft(c, x) == RatLt(c.x, RatOfInt(x))

\* crossings[crossings_idx].x <= x
CrossingAtOrLeft(c, x) == RatLeq(c.x, RatOfInt(x))

\* the while loop of render_sdf: (crossings_idx, wn) after it
RECURSIVE ConsumeCrossings(_, _, _, _)
ConsumeCrossings(cs, idx, w, x) ==
    IF Len(cs) > idx /\ CrossingAtOrLeft(cs[idx + 1], x)
    THEN ConsumeCrossings(cs, idx + 1, w + cs[idx + 1].dir, x)
    ELSE [idx |-> idx, wn |-> w]

\* mutant: the non-zero rule, whatever the fill flag
IsInsideNonZero(rf, w) == w # 0

\* mutant: the fill flag is ignored
IsInsideIgnoresFlag(rf, w) == w > 0

\* let inside = if reverse_fill { wn < 0 } else { wn > 0 }
IsInside(rf, w) == IF rf THEN w < 0 ELSE w > 0

\* the greatest k in lo..hi with k <= sqrt(q), for lo <= sqrt(q)
RECURSIVE FloorSqrtIn(_, _, _)
FloorSqrtIn(q, lo, hi) ==
    IF lo >= hi THEN lo
    ELSE LET mid == (lo + hi + 1) \div 2
         IN  IF mid * mid * q.den <= q.num
             THEN FloorSqrtIn(q, mid, hi)
             ELSE FloorSqrtIn(q, lo, mid - 1)

\* floor(sqrt(q)), 128 standing for every value above 127
FloorSqrt(q) == IF q.den = 0 THEN 128 ELSE FloorSqrtIn(q, 0, 128)

\* ceil(sqrt(q)), 128 standing for every value above 127
CeilSqrt(q) ==
    LET k == FloorSqrt(q)
    IN  IF k < 128 /\ k * k * q.den < q.num THEN k + 1 ELSE k

\* mutant: shift + dist_min * scale
QuantizeInverted(d, face_size) ==
    LET r == Rat(960, face_size)
        s == IF d.sq.den = 0 THEN d.sq
             ELSE Rat(d.sq.num * r.num * r.num, d.sq.den * r.den * r.den)
    IN  IF d.neg
        THEN 127 - (IF CeilSqrt(s) > 127 THEN 127 ELSE CeilSqrt(s))
        ELSE 127 + FloorSqrt(s)

\* mutant: half the scale
QuantizeHalfScale(d, face_size) ==
    LET r == Rat(480, face_size)
        s == IF d.sq.den = 0 THEN d.sq
             ELSE Rat(d.sq.num * r.num * r.num, d.sq.den * r.den * r.den)
    IN  IF d.neg
        THEN 127 + FloorSqrt(s)
        ELSE 127 - (IF CeilSqrt(s) > 127 THEN 127 ELSE CeilSqrt(s))

\* mutant: the value is cut towards the outline value 127, not towards zero
QuantizeTowardsShift(d, face_size) ==
    LET r == Rat(960, face_size)
        s == IF d.sq.den = 0 THEN d.sq
             ELSE Rat(d.sq.num * r.num * r.num, d.sq.den * r.den * r.den)
        k == IF FloorSqrt(s) > 127 THEN 127 ELSE FloorSqrt(s)
    IN  IF d.neg THEN 127 + FloorSqrt(s) ELSE 127 - k

\* shift - dist_min * scale, clamped to [0, 255], as u8; the distance is
\* sqrt(d.sq) / 2 pixels and scale = 1920 / face_size
Quantize(d, face_size) ==
    LET r == Rat(960, face_size)
        s == IF d.sq.den = 0 THEN d.sq
             ELSE Rat(d.sq.num * r.num * r.num, d.sq.den * r.den * r.den)
    IN  IF d.neg
        THEN 127 + FloorSqrt(s)
        ELSE 127 - (IF CeilSqrt(s) > 127 THEN 127 ELSE CeilSqrt(s))

----------------------------------------------------------------------------
(* Glyph::render_sdf on an outline of closed contours of lines *)

\* the 26.6 points of the input outlines, at the pixel coordinates (0,0),
\* (3,0), (0,3), (3,3), (0,1) and (1.5,1.5)
FtPoints ==
    {Vec2(q[1] * (unit_size \div 2), q[2] * (unit_size \div 2)) :
        q \in {<<0, 0>>, <<6, 0>>, <<0, 6>>, <<6, 6>>, <<0, 2>>, <<3, 3>>}}

RECURSIVE SeqsOfLen(_, _)
SeqsOfLen(S, n) ==
    IF n = 0 THEN {<<>>}
    ELSE {Append(q, e) : q \in SeqsOfLen(S, n - 1), e \in S}

\* closed contours of 3..MaxPts points, each point visited once
Contours ==
    {c \in UNION {SeqsOfLen(FtPoints, n) : n \in 3..MaxPts} :
        \A j, k \in 1..Len(c) : j # k => c[j] # c[k]}

\* a triangle of either orientation
Triangles ==
    {<<Vec2(0, 0), Vec2(0, 3 * unit_size), Vec2(3 * unit_size, 0)>>,
     <<Vec2(0, 0), Vec2(3 * unit_size, 0), Vec2(0, 3 * unit_size)>>}

\* the input outlines: no contour (a space), one contour, or two triangles
\* one over the other
Outlines == {<<>>} \cup {<<c>> : c \in Contours} \cup {<<c, d>> : c, d \in Triangles}

InitGlyph ==
    /\ outline \in Outlines
    /\ reverse_fill \in BOOLEAN
    /\ glyph = Glyph_from_face(outline, Padding)
    /\ linear_profiles = <<>>
    /\ linear_segments = <<>>
    /\ pc = "ingest"
    /\ ci = 0 /\ si = 0
    /\ p0 = Vec2(0, 0)
    /\ y = 0
    /\ crossings = <<>>
    /\ yr = 0 /\ xr = 0
    /\ crossings_idx = 0 /\ wn = 0
    /\ inside = FALSE
    /\ dist_min = [neg |-> FALSE, sq |-> RatOfInt(0)]
    /\ buffer = [i \in 0..(glyph.width * glyph.height - 1) |-> 0]
    /\ FontIdle
    /\ CurveIdle

render_vars == <<y, crossings, yr, xr, crossings_idx, wn, inside, dist_min, buffer>>

\* for contour in outline.contours_iter(): p0 = vec2_from_ft(contour.start())
ContourStart ==
    /\ pc = "ingest"
    /\ ci < Len(outline)
    /\ ci > 0 => si = NumCurves(outline[ci])
    /\ ci' = ci + 1
    /\ si' = 0
    /\ p0' = vec2_from_ft(outline[ci + 1][1], unit_size)
    /\ UNCHANGED <<linear_profiles, linear_segments, outline, reverse_fill, glyph, pc>>
    /\ UNCHANGED render_vars
    /\ UNCHANGED <<font_vars, curve_vars>>

\* Curve::Line(a): both indexes take the line from p0 to a
IngestLine ==
    /\ pc = "ingest"
    /\ ci > 0
    /\ si < NumCurves(outline[ci])
    /\ LET p1 == vec2_from_ft(CurveEnd(outline[ci], si + 1), unit_size)
       IN  /\ linear_profiles' = push_line(linear_profiles, p0, p1)
           /\ linear_segments' = Append(linear_segments, LinearSegment(p0, p1))
           /\ p0' = p1
    /\ si' = si + 1
    /\ UNCHANGED <<outline, reverse_fill, glyph, pc, ci>>
    /\ UNCHANGED render_vars
    /\ UNCHANGED <<font_vars, curve_vars>>

Ingested ==
    /\ pc = "ingest"
    /\ ci = Len(outline)
    /\ ci > 0 => si = NumCurves(outline[ci])

\* for yr in 0 .. self.height: the row's scanline and its crossings
RowStart ==
    /\ Ingested \/ (pc = "pixel" /\ xr + 1 >= glyph.width)
    /\ LET r == IF pc = "ingest" THEN 0 ELSE yr + 1
       IN  /\ r < glyph.height
           /\ yr' = r
           /\ y' = RowY(glyph, r)
           /\ crossings' = scanline_crossings(linear_profiles, RowY(glyph, r))
    /\ crossings_idx' = 0
    /\ wn' = 0
    /\ pc' = "row"
    /\ UNCHANGED <<linear_profiles, linear_segments, outline, reverse_fill, glyph,
                   ci, si, p0, xr, inside, dist_min, buffer>>
    /\ UNCHANGED <<font_vars, curve_vars>>

\* for xr in 0 .. self.width: one pixel
RenderPixel ==
    /\ pc \in {"row", "pixel"}
    /\ LET c   == IF pc = "row" THEN 0 ELSE xr + 1
           x   == PixelX(glyph, c)
           d   == OutlineDistance_distance(linear_segments, Vec2(x, y))
           w   == ConsumeCrossings(crossings, crossings_idx, wn, x)
           in  == IsInside(reverse_fill, w.wn)
           sd  == [neg |-> in, sq |-> d]
           off == (glyph.y + yr) * glyph.width + glyph.x
       IN  /\ c < glyph.width
           /\ xr' = c
           /\ crossings_idx' = w.idx
           /\ wn' = w.wn
           /\ inside' = in
           /\ dist_min' = sd
           /\ buffer' = [buffer EXCEPT ![off + c] = Quantize(sd, Face.face_size)]
    /\ pc' = "pixel"
    /\ UNCHANGED <<linear_profiles, linear_segments, outline, reverse_fill, glyph,
                   ci, si, p0, y, crossings, yr>>
    /\ UNCHANGED <<font_vars, curve_vars>>

\* the last pixel of the last row is written: render_sdf returns
Return ==
    /\ pc = "pixel"
    /\ xr + 1 >= glyph.width
    /\ yr + 1 >= glyph.height
    /\ pc' = "done"
    /\ UNCHANGED <<linear_profiles, linear_segments, outline, reverse_fill, glyph,
                   ci, si, p0>>
    /\ UNCHANGED render_vars
    /\ UNCHANGED <<font_vars, curve_vars>>

NextGlyph == ContourStart \/ IngestLine \/ RowStart \/ RenderPixel \/ Return

SpecGlyph == InitGlyph /\ [][NextGlyph]_vars

----------------------------------------------------------------------------
(* Claims about the Rasterizer interface, checked under Spec *)

Scanned == pc = "scanline_crossings"

\* the profiles whose Y-range [first.y, last.y) holds sy
CrossedBy(sy) ==
    {i \in 1..Len(linear_profiles) :
        linear_profiles[i].p0.y <= sy /\ sy < linear_profiles[i].p1.y}

\* the point (x, sy) lies on the line through the profile's endpoints
OnProfile(prf, sy, x) ==
    /\ ~IsNaN(x)
    /\ (x.num - prf.p0.x * x.den) * (prf.p1.y - prf.p0.y)
           = (sy - prf.p0.y) * (prf.p1.x - prf.p0.x) * x.den

Bijections(S, T) ==
    {f \in [S -> T] : /\ \A a, b \in S : a # b => f[a] # f[b]
                      /\ \A t \in T : \E a \in S : f[a] = t}

C2_CrossingsSortedByX ==
    Scanned =>
        \A k \in 1..(Len(crossings) - 1) :
            RatLeq(crossings[k].x, crossings[k + 1].x)

\* two crossings returned in ascending x although the profile stored first
\* is crossed at the larger x
C2_Witness ==
    /\ Scanned
    /\ Len(crossings) = 2
    /\ RatLt(crossings[1].x, crossings[2].x)
    /\ RatLt(line_intersection(y, linear_profiles[2].p0, linear_profiles[2].p1),
             line_intersection(y, linear_profiles[1].p0, linear_profiles[1].p1))

\* what the claim says push_line(q0, q1) does to linear_profiles
PushLinePost(q0, q1) ==
    IF q0.y = q1.y
    THEN linear_profiles' = linear_profiles
    ELSE /\ Len(linear_profiles') = Len(linear_profiles) + 1
         /\ SubSeq(linear_profiles', 1, Len(linear_profiles)) = linear_profiles
         /\ LET prf == linear_profiles'[Len(linear_profiles')]
            IN  /\ prf.p0.y < prf.p1.y
                /\ {prf.p0, prf.p1} = {q0, q1}
                /\ prf.dir = IF q0.y < q1.y THEN 1 ELSE -1

ProfilesOrdered ==
    \A i \in 1..Len(linear_profiles) :
        /\ linear_profiles[i].p0.y < linear_profiles[i].p1.y
        /\ linear_profiles[i].dir \in {-1, 1}

\* C3: push_line(p0, p1) stores nothing when p0.y = p1.y and otherwise appends
\* exactly one profile, its first point the one with the strictly smaller y,
\* dir = +1 for a line going up and -1 for one going down; so every stored
\* linear profile has p0.y < p1.y and dir in {-1, +1}.
C3_PushLineStoresOrderedProfile ==
    [][ /\ \A q0, q1 \in ApiPoints : PushLine(q0, q1) => PushLinePost(q0, q1)
        /\ ProfilesOrdered' ]_vars

\* a line going down and a line going up were pushed
C3_Witness ==
    /\ pc = "push_line"
    /\ Len(linear_profiles) = 2
    /\ linear_profiles[1].dir = -1
    /\ linear_profiles[2].dir = 1

\* linear_profiles after pushing the square contour
\* (0,0) -> (10,0) -> (10,10) -> (0,10) -> (0,0)
SquareProfiles ==
    push_line(
      push_line(
        push_line(
          push_line(<<>>, Vec2(F(0), F(0)), Vec2(F(10), F(0))),
          Vec2(F(10), F(0)), Vec2(F(10), F(10))),
        Vec2(F(10), F(10)), Vec2(F(0), F(10))),
      Vec2(F(0), F(10)), Vec2(F(0), F(0)))

SquareScanned == Scanned /\ linear_profiles = SquareProfiles /\ y = F(5)

\* C4 as stated: the square's scanline at y = 5 yields [(+1, 0), (-1, 10)].
C4_SquareCrossingsAsStated ==
    SquareScanned =>
        crossings = << OrientedCrossing(1, RatOfInt(F(0))),
                       OrientedCrossing(-1, RatOfInt(F(10))) >>

\* C4 amended: the contour runs up its right edge and down its left edge, so
\* the scanline at y = 5 yields [(-1, 0), (+1, 10)].
C4_SquareCrossings ==
    SquareScanned =>
        crossings = << OrientedCrossing(-1, RatOfInt(F(0))),
                       OrientedCrossing(1, RatOfInt(F(10))) >>

C4_Witness == SquareScanned /\ Len(crossings) = 2

----------------------------------------------------------------------------
(* Claims about closed contours and render_sdf, checked under SpecGlyph *)

\* the point k of a contour (counted cyclically), as render_sdf converts it
ContourPoint(c, k) == vec2_from_ft(c[((k - 1) % Len(c)) + 1], unit_size)

\* the junctions of the outline: a vertex with the contour's points before
\* and after it
Junctions ==
    UNION {{[a |-> ContourPoint(outline[c], k + Len(outline[c]) - 1),
             v |-> ContourPoint(outline[c], k),
             b |-> ContourPoint(outline[c], k + 1)] : k \in 1..Len(outline[c])} :
           c \in 1..Len(outline)}

\* every scanline through the glyph's rectangle, pixel centres and pixel
\* edges alike
AllScanlines == F(glyph.ymin)..F(glyph.ymin + glyph.height)

RECURSIVE DirSum(_)
DirSum(cs) == IF cs = <<>> THEN 0 ELSE Head(cs).dir + DirSum(Tail(cs))

\* the y of the nearest point of the contour, from point k in direction
\* step, that is not level with point k (the y of point k if there is none)
NeighbourY(c, k, step) ==
    LET n  == Len(c)
        js == {j \in 1..(n - 1) :
                  ContourPoint(c, k + n + step * j).y # ContourPoint(c, k).y}
    IN  IF js = {} THEN ContourPoint(c, k).y
        ELSE ContourPoint(c, k + n + step * SetMin(js)).y

\* the contour turns back in Y at point k
IsYExtremum(c, k) ==
    LET before == NeighbourY(c, k, -1)
        after  == NeighbourY(c, k, 1)
        here   == ContourPoint(c, k).y
    IN  \/ before > here /\ after > here
        \/ before < here /\ after < here
        \/ before = here

ExtremumYs ==
    UNION {{ContourPoint(outline[c], k).y :
               k \in {j \in 1..Len(outline[c]) : IsYExtremum(outline[c], j)}} :
           c \in 1..Len(outline)}

\* C5: when the pushed segments form closed contours, the sum of dir over the
\* crossings of every scanline that does not pass through a Y-extremum of a
\* contour is zero.
C5_WindingSumsToZero ==
    Ingested =>
        \A sy \in AllScanlines \ ExtremumYs :
            DirSum(scanline_crossings(linear_profiles, sy)) = 0

\* a closed contour is ingested and a scanline off its extrema crosses it
C5_Witness ==
    /\ Ingested
    /\ \E sy \in AllScanlines \ ExtremumYs :
          LET cs == scanline_crossings(linear_profiles, sy)
          IN  Len(cs) >= 2 /\ cs[1].dir = 1 /\ DirSum(cs) = 0

\* what the two segments a -> v and v -> b alone contribute to the scanline
\* through their shared point v
JunctionCrossings(j) ==
    scanline_crossings(push_line(push_line(<<>>, j.a, j.v), j.v, j.b), j.v.y)

\* C6 as stated: no junction of two consecutive contour segments yields two
\* crossings at the same x on the scanline through the shared point.
C6_NoTwoCrossingsAtJunction ==
    Ingested =>
        \A j \in Junctions :
            LET jc == JunctionCrossings(j)
            IN  ~(Len(jc) = 2 /\ jc[1].x = jc[2].x)

\* C6 amended: a junction yields two crossings at the same x only where the
\* contour has a local minimum in Y (both segments rise from the shared
\* point), and then the two crossings have opposite dir.
C6_TwoCrossingsOnlyAtLocalMinimum ==
    Ingested =>
        \A j \in Junctions :
            LET jc == JunctionCrossings(j)
            IN  /\ Len(jc) <= 2
                /\ \A k \in 1..Len(jc) : jc[k].x = RatOfInt(j.v.x)
                /\ Len(jc) = 2 =>
                      /\ j.a.y > j.v.y /\ j.b.y > j.v.y
                      /\ jc[1].dir + jc[2].dir = 0

\* a contour with a local minimum in Y is ingested; its junction there
\* yields two crossings
C6_Witness ==
    /\ Ingested
    /\ \E j \in Junctions :
          /\ j.a.y > j.v.y /\ j.b.y > j.v.y
          /\ Len(JunctionCrossings(j)) = 2

\* the contour passes through v going up, or going down
MonotonicAt(j) ==
    \/ j.a.y < j.v.y /\ j.v.y < j.b.y
    \/ j.a.y > j.v.y /\ j.v.y > j.b.y

\* of the two segments of a junction, the one stored with v as its first
\* (bottom) point, and the one stored with v as its last (top) point
BottomSegment(j) == IF j.v.y < j.b.y THEN <<j.v, j.b>> ELSE <<j.a, j.v>>
TopSegment(j)    == IF j.v.y < j.b.y THEN <<j.a, j.v>> ELSE <<j.v, j.b>>

\* v lies on the segment a-b, strictly between its ends
StrictlyBetween(j) ==
    /\ (j.v.x - j.a.x) * (j.b.y - j.a.y) = (j.v.y - j.a.y) * (j.b.x - j.a.x)
    /\ Dot(Sub(j.v, j.a), Sub(j.b, j.v)) > 0

\* linear_profiles after render_sdf has ingested contours c.. of outline o
RECURSIVE PushCurves(_, _, _)
PushCurves(profiles, c, k) ==
    IF k > NumCurves(c) THEN profiles
    ELSE PushCurves(push_line(profiles, ContourPoint(c, k), ContourPoint(c, k + 1)),
                    c, k + 1)

RECURSIVE PushContours(_, _, _)
PushContours(profiles, o, c) ==
    IF c > Len(o) THEN profiles
    ELSE PushContours(PushCurves(profiles, o[c], 1), o, c + 1)

\* the outline without point k of contour c
WithoutPoint(o, c, k) ==
    [o EXCEPT ![c] = SubSeq(o[c], 1, k - 1) \o SubSeq(o[c], k + 1, Len(o[c]))]

\* C7: where the contour passes through a shared point Y-monotonically, the
\* scanline through it gets exactly one crossing from the junction, from the
\* segment stored with the point as its bottom endpoint and none from the
\* one stored with it as its top endpoint; and a line split at an interior
\* point (the two parts pushed one after the other) gives, on every scanline,
\* the crossings of the unsplit line.
C7_JunctionBelongsToBottomSegment ==
    Ingested =>
        /\ linear_profiles = PushContours(<<>>, outline, 1)
        /\ \A j \in Junctions :
              MonotonicAt(j) =>
                  LET bot == BottomSegment(j)
                      top == TopSegment(j)
                  IN  /\ Len(JunctionCrossings(j)) = 1
                      /\ JunctionCrossings(j)
                            = scanline_crossings(push_line(<<>>, bot[1], bot[2]), j.v.y)
                      /\ scanline_crossings(push_line(<<>>, top[1], top[2]), j.v.y) = <<>>
        /\ \A c \in 1..Len(outline) : \A k \in 2..Len(outline[c]) :
              StrictlyBetween([a |-> ContourPoint(outline[c], k + Len(outline[c]) - 1),
                               v |-> ContourPoint(outline[c], k),
                               b |-> ContourPoint(outline[c], k + 1)]) =>
                  \A sy \in AllScanlines :
                      scanline_crossings(linear_profiles, sy)
                          = scanline_crossings(
                                PushContours(<<>>, WithoutPoint(outline, c, k), 1), sy)

\* an ingested contour has a point strictly inside a slanted line, and the
\* scanline through that point crosses the line
C7_Witness ==
    /\ Ingested
    /\ \E j \in Junctions :
          /\ StrictlyBetween(j)
          /\ MonotonicAt(j)
          /\ j.a.x # j.b.x
          /\ Len(JunctionCrossings(j)) = 1

\* the crossings of the row at or left of the pixel centre x
AtOrLeftOf(cs, x) == SelectSeq(cs, LAMBDA c : RatLeq(c.x, RatOfInt(x)))

\* C8: for every pixel, wn is the sum of dir over exactly the crossings of the
\* row's scanline with x <= the pixel-centre x (it starts at 0 on each row);
\* the pixel is inside iff wn < 0 with reverse_fill and iff wn > 0 without,
\* and the distance is negated exactly for inside pixels.
C8_WindingNumberOfPixel ==
    /\ pc = "row" => wn = 0 /\ crossings_idx = 0
    /\ pc \in {"row", "pixel"} =>
          /\ y = F(glyph.ymin + (glyph.height - 1 - yr)) + Half
          /\ crossings = scanline_crossings(linear_profiles, y)
    /\ pc = "pixel" =>
          /\ wn = DirSum(AtOrLeftOf(crossings, F(glyph.xmin + xr) + Half))
          /\ crossings_idx = Len(AtOrLeftOf(crossings, F(glyph.xmin + xr) + Half))
          /\ inside = (IF reverse_fill THEN wn < 0 ELSE wn > 0)
          /\ dist_min.neg = inside
          /\ dist_min.sq = OutlineDistance_distance(linear_segments,
                                Vec2(F(glyph.xmin + xr) + Half, y))

\* a pixel right of one crossing of its row and left of another, found inside
C8_Witness ==
    /\ pc = "pixel"
    /\ crossings_idx = 1
    /\ Len(crossings) = 2
    /\ wn = 1
    /\ inside
    /\ dist_min.neg
    /\ dist_min.sq.num > 0

\* the sum of dir over the stored profiles that the scanline sy crosses at or
\* left of x
RECURSIVE SignedCrossingsLeftOf(_, _, _)
SignedCrossingsLeftOf(profiles, x, sy) ==
    IF profiles = <<>> THEN 0
    ELSE LET prf == Head(profiles)
             dy  == prf.p1.y - prf.p0.y
             hit == /\ prf.p0.y <= sy /\ sy < prf.p1.y
                    /\ (sy - prf.p0.y) * (prf.p1.x - prf.p0.x) <= (x - prf.p0.x) * dy
         IN  (IF hit THEN prf.dir ELSE 0)
                 + SignedCrossingsLeftOf(Tail(profiles), x, sy)

PixelWinding == SignedCrossingsLeftOf(linear_profiles, PixelX(glyph, xr), y)

\* C9 as stated: a pixel is treated as inside exactly when the sum of the
\* signed crossings at or left of its centre is non-zero.
C9_InsideIffNonZero ==
    pc = "pixel" => (inside <=> PixelWinding # 0)

\* C9 amended: a pixel is treated as inside exactly when that sum is positive
\* (reverse_fill clear) or negative (reverse_fill set); a non-zero sum of the
\* other sign is treated as outside.
C9_InsideIffSignOfFill ==
    pc = "pixel" =>
        (inside <=> IF reverse_fill THEN PixelWinding < 0 ELSE PixelWinding > 0)

\* a pixel with a non-zero winding sum that is treated as outside
C9_Witness ==
    /\ pc = "pixel"
    /\ ~reverse_fill
    /\ PixelWinding < 0
    /\ ~inside

Cross(u, v) == u.x * v.y - u.y * v.x

\* the points of contour c, in pixel space
Polygon(c) == [k \in 1..Len(c) |-> ContourPoint(c, k)]

\* the polygon is simple and convex, turning the way of s at every point
\* (s = 1: counter-clockwise, s = -1: clockwise, with y pointing up)
ConvexTurning(P, s) ==
    /\ \A k \in 1..Len(P) :
          LET q0 == P[k]
              q1 == P[(k % Len(P)) + 1]
              q2 == P[((k + 1) % Len(P)) + 1]
          IN  /\ s * Cross(Sub(q1, q0), Sub(q2, q1)) > 0
              /\ \A j \in 1..Len(P) : s * Cross(Sub(q1, q0), Sub(P[j], q0)) >= 0

\* the side of every edge of P on which the point q lies
StrictlyInside(P, s, q) ==
    \A k \in 1..Len(P) :
        s * Cross(Sub(P[(k % Len(P)) + 1], P[k]), Sub(q, P[k])) > 0

StrictlyOutside(P, s, q) ==
    \E k \in 1..Len(P) :
        s * Cross(Sub(P[(k % Len(P)) + 1], P[k]), Sub(q, P[k])) < 0

PixelCentre == Vec2(PixelX(glyph, xr), y)

SignMatchesPolygon(s) ==
    LET P == Polygon(outline[1])
    IN  /\ StrictlyInside(P, s, PixelCentre) => dist_min.neg /\ dist_min.sq.num > 0
        /\ StrictlyOutside(P, s, PixelCentre) => ~dist_min.neg /\ dist_min.sq.num > 0

\* C10 as stated: for a simple convex polygon contour the sign of every pixel
\* matches geometric point-in-polygon.
C10_SignMatchesConvexPolygon ==
    pc = "pixel" /\ Len(outline) = 1 =>
        \A s \in {-1, 1} :
            ConvexTurning(Polygon(outline[1]), s) => SignMatchesPolygon(s)

\* C10 amended: it does for a contour whose orientation agrees with the fill
\* flag: clockwise (y pointing up) with reverse_fill clear, counter-clockwise
\* with reverse_fill set.
C10_SignMatchesOrientedConvexPolygon ==
    pc = "pixel" /\ Len(outline) = 1 =>
        LET s == IF reverse_fill THEN 1 ELSE -1
        IN  ConvexTurning(Polygon(outline[1]), s) => SignMatchesPolygon(s)

\* a pixel strictly inside a clockwise square, given the negated distance
C10_Witness ==
    /\ pc = "pixel"
    /\ ~reverse_fill
    /\ Len(outline) = 1
    /\ Len(outline[1]) = 4
    /\ ConvexTurning(Polygon(outline[1]), -1)
    /\ StrictlyInside(Polygon(outline[1]), -1, PixelCentre)
    /\ dist_min.neg

----------------------------------------------------------------------------
(* Glyph::render_sdf as one call: the bitmap it leaves in a buffer *)

\* mindist.linear_segments after render_sdf has ingested the outline o
RECURSIVE SegmentsOfCurves(_, _, _)
SegmentsOfCurves(segments, c, k) ==
    IF k > NumCurves(c) THEN segments
    ELSE SegmentsOfCurves(
             Append(segments, LinearSegment(ContourPoint(c, k), ContourPoint(c, k + 1))),
             c, k + 1)

RECURSIVE SegmentsOfContours(_, _, _)
SegmentsOfContours(segments, o, c) ==
    IF c > Len(o) THEN segments
    ELSE SegmentsOfContours(SegmentsOfCurves(segments, o[c], 1), o, c + 1)

\* mutant: the rectangle's column is left out of the index
WritePixelNoColumn(buf, pitch, g, r, c, b) ==
    [buf EXCEPT ![(g.y + r) * pitch + c] = b]

\* buffer_row[xr] = ... : the write of the pixel (xr, yr) of the glyph g
WritePixel(buf, pitch, g, r, c, b) ==
    [buf EXCEPT ![(g.y + r) * pitch + g.x + c] = b]

\* for xr in 0 .. self.width, from column c on
RECURSIVE RenderPixels(_, _, _, _, _, _)
RenderPixels(buf, ctx, r, c, idx, w) ==
    IF c >= ctx.g.width THEN buf
    ELSE LET x  == PixelX(ctx.g, c)
             sy == RowY(ctx.g, r)
             k  == ConsumeCrossings(ctx.rows[r + 1], idx, w, x)
             sd == [neg |-> IsInside(ctx.rf, k.wn),
                    sq  |-> OutlineDistance_distance(ctx.segments, Vec2(x, sy))]
         IN  RenderPixels(
                 WritePixel(buf, ctx.pitch, ctx.g, r, c, Quantize(sd, Face.face_size)),
                 ctx, r, c + 1, k.idx, k.wn)

\* for yr in 0 .. self.height, from row r on
RECURSIVE RenderRows(_, _, _)
RenderRows(buf, ctx, r) ==
    IF r >= ctx.g.height THEN buf
    ELSE RenderRows(RenderPixels(buf, ctx, r, 0, 0, 0), ctx, r + 1)

\* glyph.render_sdf(face, face_size, buffer, pitch) for the glyph g of the
\* outline o: the buffer after the call
render_sdf(buf, pitch, g, o, rf) ==
    LET profiles == PushContours(<<>>, o, 1)
    IN  RenderRows(buf,
                   [g |-> g, rf |-> rf, pitch |-> pitch,
                    segments |-> SegmentsOfContours(<<>>, o, 1),
                    rows |-> [r \in 1..g.height |->
                                 scanline_crossings(profiles, RowY(g, r - 1))]],
                   0)

----------------------------------------------------------------------------
(* Claims about the rendered bitmap, checked under SpecGlyph *)

\* every contour of the outline run the other way round
Reversed(o) == [c \in 1..Len(o) |-> [k \in 1..Len(o[c]) |-> o[c][Len(o[c]) + 1 - k]]]

ZeroBuffer(n) == [i \in 0..(n - 1) |-> 0]

\* the bitmap of the outline o rendered alone, into a buffer of its own size
Bitmap(o, rf) ==
    LET g == Glyph_from_face(o, Padding)
    IN  render_sdf(ZeroBuffer(g.width * g.height), g.width, g, o, rf)

\* C11: the bitmap rendered from an outline with one value of reverse_fill is
\* byte for byte the bitmap rendered from the outline with every contour
\* reversed and the other value of reverse_fill.
C11_ReverseFillSymmetry ==
    pc = "done" => buffer = Bitmap(Reversed(outline), ~reverse_fill)

\* an outline is rendered with reverse_fill clear, some of its pixels inside
\* and some outside
C11_Witness ==
    /\ pc = "done"
    /\ ~reverse_fill
    /\ \E i \in DOMAIN buffer : buffer[i] > 127
    /\ \E i \in DOMAIN buffer : buffer[i] < 127
    /\ buffer = Bitmap(outline, reverse_fill)

\* the index in buffer of the pixel render_sdf has just written
PixelIndex == (glyph.y + yr) * glyph.width + glyph.x + xr

\* the square of |d| * (1920 / face_size), d being the distance in pixels
ScaledSq(d) ==
    Rat(d.sq.num * 960 * 960, d.sq.den * Face.face_size * Face.face_size)

\* k < sqrt(q), and k <= sqrt(q)
BelowRoot(k, q) == k < 0 \/ k * k * q.den < q.num
AtMostRoot(k, q) == k < 0 \/ k * k * q.den <= q.num

\* b is v = 127 - d * (1920 / face_size) clamped to [0, 255] and cut to an
\* integer: b <= clamp(v) < b + 1
IsQuantized(b, d) ==
    LET s == ScaledSq(d)
    IN  IF d.neg
        THEN /\ b \in 127..255
             /\ AtMostRoot(b - 127, s)
             /\ b < 255 => ~AtMostRoot(b - 126, s)
        ELSE /\ b \in 0..127
             /\ BelowRoot(126 - b, s)
             /\ b > 0 => ~BelowRoot(127 - b, s)

\* C12: every byte written is 127 - d * (1920 / face_size) clamped to
\* [0, 255] and truncated, d being the signed distance; so it is in [0, 255],
\* and it is 127 where the pixel centre lies on the outline.
C12_ByteIsQuantizedDistance ==
    pc = "pixel" =>
        /\ buffer[PixelIndex] \in 0..255
        /\ IsQuantized(buffer[PixelIndex], dist_min)
        /\ dist_min.sq.num = 0 => buffer[PixelIndex] = 127

\* an outside pixel at a distance that is not a whole number of steps, short
\* of the clamp
C12_Witness ==
    /\ pc = "pixel"
    /\ ~dist_min.neg
    /\ buffer[PixelIndex] \in 1..126
    /\ BelowRoot(126 - buffer[PixelIndex], ScaledSq(dist_min))
    /\ ~AtMostRoot(127 - buffer[PixelIndex], ScaledSq(dist_min))

\* the distance of d is at least 5 * padding / face_size pixels
BeyondPaddingDistance(d) ==
    d.sq.num * Face.face_size * Face.face_size >= 100 * Padding * Padding * d.sq.den

\* C13 as stated: an outside pixel at a distance of 5 * padding / face_size
\* or more gets byte 0, an inside pixel at that distance or more gets 255.
C13_SaturatedBeyondPaddingDistance ==
    pc = "pixel" /\ BeyondPaddingDistance(dist_min) =>
        buffer[PixelIndex] = (IF dist_min.neg THEN 255 ELSE 0)

\* C13 amended: an outside pixel at a distance of 127 * face_size / 1920
\* pixels or more gets byte 0, an inside pixel at a distance of
\* 128 * face_size / 1920 pixels or more gets byte 255.
C13_SaturatedBeyondRange ==
    pc = "pixel" =>
        /\ ~dist_min.neg /\ AtMostRoot(127, ScaledSq(dist_min)) => buffer[PixelIndex] = 0
        /\ dist_min.neg /\ AtMostRoot(128, ScaledSq(dist_min)) => buffer[PixelIndex] = 255

\* an inside pixel beyond the range (the centre of the clockwise square)
C13_Witness ==
    /\ pc = "pixel"
    /\ dist_min.neg
    /\ AtMostRoot(128, ScaledSq(dist_min))
    /\ buffer[PixelIndex] = 255

----------------------------------------------------------------------------
(* examples/glyph.rs: glyph_to_image, the monochrome bitmap of a glyph *)

\* buffer.push(inside as u8 * 255u8)
MonoByte(in) == IF in THEN 255 ELSE 0

\* for xr in 0 .. w, from column c on (cs: the crossings of the row)
RECURSIVE MonoPixels(_, _, _, _, _, _)
MonoPixels(buf, ctx, cs, c, idx, w) ==
    IF c >= ctx.w THEN buf
    ELSE LET k == ConsumeCrossings(cs, idx, w, ctx.origin.x + F(c))
         IN  MonoPixels(Append(buf, MonoByte(IsInside(ctx.rf, k.wn))),
                        ctx, cs, c + 1, k.idx, k.wn)

\* for yr in (0..h).rev(), from row r down
RECURSIVE MonoRows(_, _, _)
MonoRows(buf, ctx, r) ==
    IF r < 0 THEN buf
    ELSE MonoRows(MonoPixels(buf, ctx,
                             scanline_crossings(ctx.profiles, ctx.origin.y + F(r)),
                             0, 0, 0),
                  ctx, r - 1)

\* glyph_to_image for the glyph with outline o: the bytes pushed, in order
glyph_to_image(o, rf, padding) ==
    LET bbox == CBox(o)
        xmin == RoundToPixel(bbox.xMin, unit_size)
        ymin == RoundToPixel(bbox.yMin, unit_size)
        xmax == RoundToPixel(bbox.xMax, unit_size)
        ymax == RoundToPixel(bbox.yMax, unit_size)
        w    == (xmax - xmin) + 2 * padding
        h    == (ymax - ymin) + 2 * padding
    IN  MonoRows(<<>>,
                 [w |-> w, rf |-> rf,
                  origin |-> Vec2(F(xmin - padding) + Half, F(ymin - padding) + Half),
                  profiles |-> PushContours(<<>>, o, 1)],
                 h - 1)

\* the centre of the pixel stored at index i of the glyph's own bitmap is
\* less than half a pixel from the outline
OnOutlineBand(i) ==
    LET d == OutlineDistance_distance(linear_segments,
                 Vec2(PixelX(glyph, i % glyph.width), RowY(glyph, i \div glyph.width)))
    IN  d.num < d.den

\* C14: the SDF bitmap thresholded at 127 (byte >= 127: filled) agrees with
\* the monochrome bitmap of glyph_to_image on every pixel outside a band one
\* pixel thick along the outline; every inside pixel has a byte >= 127 and
\* every outside pixel a byte <= 127.
C14_ThresholdAgreesWithMonochrome ==
    pc = "done" =>
        LET mono == glyph_to_image(outline, reverse_fill, Padding)
        IN  /\ Len(mono) = glyph.width * glyph.height
            /\ \A i \in DOMAIN buffer :
                  /\ mono[i + 1] = 255 => buffer[i] >= 127
                  /\ mono[i + 1] = 0 => buffer[i] <= 127
                  /\ (buffer[i] >= 127) # (mono[i + 1] = 255) => OnOutlineBand(i)

\* a rendered glyph with filled pixels, and with an outside pixel whose
\* centre is on the outline: the two bitmaps differ there
C14_Witness ==
    /\ pc = "done"
    /\ \E i \in DOMAIN buffer :
          /\ buffer[i] = 127
          /\ glyph_to_image(outline, reverse_fill, Padding)[i + 1] = 0
    /\ \E i \in DOMAIN buffer :
          /\ buffer[i] > 127
          /\ glyph_to_image(outline, reverse_fill, Padding)[i + 1] = 255

----------------------------------------------------------------------------
(* Claims about the glyph's pixel rectangle, checked under SpecGlyph *)

\* k = floor(v / unit + 0.5), that is k <= v / unit + 0.5 < k + 1
IsFloorOfShifted(k, v, unit) ==
    2 * k * unit <= 2 * v + unit /\ 2 * v + unit < 2 * (k + 1) * unit

\* the pixel columns and rows a bounding box of the input outlines can round to
PixelRange == -1..4

\* C15: Glyph::from_face yields width = (floor(xMax/unit + 0.5) -
\* floor(xMin/unit + 0.5)) + 2 * padding, height likewise, with
\* unit = em_size * 64 / face_size, and the centre of the glyph's bottom-left
\* pixel is at floor(xMin/unit + 0.5) - padding + 0.5 and
\* floor(yMin/unit + 0.5) - padding + 0.5.
C15_GlyphRectangle ==
    LET bbox == CBox(outline)
        unit == (Face.em_size * 64) \div Face.face_size
    IN  \E x0 \in PixelRange : IsFloorOfShifted(x0, bbox.xMin, unit) /\
        \E x1 \in PixelRange : IsFloorOfShifted(x1, bbox.xMax, unit) /\
        \E y0 \in PixelRange : IsFloorOfShifted(y0, bbox.yMin, unit) /\
        \E y1 \in PixelRange : IsFloorOfShifted(y1, bbox.yMax, unit) /\
            /\ glyph.width = (x1 - x0) + 2 * Padding
            /\ glyph.height = (y1 - y0) + 2 * Padding
            /\ pc = "pixel" /\ xr = 0 /\ yr = glyph.height - 1 =>
                  /\ y = 2 * (y0 - Padding) + 1
                  /\ dist_min.sq = OutlineDistance_distance(linear_segments,
                                       Vec2(2 * (x0 - Padding) + 1,
                                            2 * (y0 - Padding) + 1))

\* the bottom-left pixel of a glyph whose bounding box ends half-way through
\* a pixel has been rendered
C15_Witness ==
    /\ pc = "pixel" /\ xr = 0 /\ yr = glyph.height - 1
    /\ (2 * CBox(outline).xMax) % (2 * unit_size) = unit_size
    /\ (2 * CBox(outline).yMax) % (2 * unit_size) = unit_size
    /\ glyph.width = 2 + 2 * Padding
    /\ glyph.height = 2 + 2 * Padding

----------------------------------------------------------------------------
(* font.rs: Font, the atlas of the glyphs of a face *)

\* the square_size argument of Font::new
AtlasSide == 2 * (3 + 2 * Padding)

\* the glyphs of the face: a clockwise square "A", a counter-clockwise
\* triangle "B" in a face that sets FT_OUTLINE_REVERSE_FILL for it
FaceGlyphs ==
    [A |-> [outline |-> <<<<Vec2(0, 0), Vec2(0, 3 * unit_size),
                            Vec2(3 * unit_size, 3 * unit_size),
                            Vec2(3 * unit_size, 0)>>>>,
            reverse_fill |-> FALSE],
     B |-> [outline |-> <<<<Vec2(0, 0), Vec2(3 * (unit_size \div 2), 3 * (unit_size \div 2)),
                            Vec2(0, unit_size)>>>>,
            reverse_fill |-> TRUE]]

Chars == DOMAIN FaceGlyphs

\* the chars arguments
CharLists == UNION {SeqsOfLen(Chars, n) : n \in 1..MaxChars}

\* self.buffer.resize(n, 0u8)
Resize(buf, n) == [i \in 0..(n - 1) |-> IF i \in DOMAIN buf THEN buf[i] ELSE 0]

\* self.glyphs.insert(ch, g)
Insert(glyphs, ch, g) ==
    [k \in DOMAIN glyphs \cup {ch} |-> IF k = ch THEN g ELSE glyphs[k]]

Rect(x, yy, w, h) == [x |-> x, y |-> yy, width |-> w, height |-> h]

Overlap(a, b) ==
    /\ a.x < b.x + b.width /\ b.x < a.x + a.width
    /\ a.y < b.y + b.height /\ b.y < a.y + a.height

\* rect_packer::Packer::pack(w, h, false): the rectangles it may return, in
\* the atlas and clear of those it has handed out (it tries two corners)
PackerChoices(w, h) ==
    {r \in {Rect(0, 0, w, h), Rect(AtlasSide - w, AtlasSide - h, w, h)} :
        /\ r.x >= 0 /\ r.y >= 0
        /\ \A q \in packer : ~Overlap(r, q)}

\* Font::new(square_size)
InitFont ==
    /\ font = [width |-> AtlasSide, height |-> AtlasSide, glyphs |-> <<>>]
    /\ buffer = <<>>
    /\ chars = <<>>
    /\ chi = 0
    /\ packer = {}
    /\ calls = 0
    /\ pc = "font_new"
    /\ linear_profiles = <<>>
    /\ linear_segments = <<>>
    /\ y = 0
    /\ crossings = <<>>
    /\ outline = <<>>
    /\ reverse_fill = FALSE
    /\ glyph = [x |-> 0, y |-> 0, width |-> 0, height |-> 0, xmin |-> 0, ymin |-> 0]
    /\ ci = 0 /\ si = 0
    /\ p0 = Vec2(0, 0)
    /\ yr = 0 /\ xr = 0
    /\ crossings_idx = 0 /\ wn = 0
    /\ inside = FALSE
    /\ dist_min = [neg |-> FALSE, sq |-> RatOfInt(0)]
    /\ CurveIdle

\* what a build leaves alone: the locals of the render_sdf calls
build_idle == <<linear_profiles, linear_segments, y, crossings, ci, si, p0, yr, xr,
                crossings_idx, wn, inside, dist_min, curve_vars>>

\* build_from_face(face, face_size, padding, cs), up to its loop
BuildFromFace(cs) ==
    /\ pc \in {"font_new", "built"}
    /\ calls < MaxCalls
    /\ calls' = calls + 1
    /\ chars' = cs
    /\ chi' = 0
    /\ packer' = {}
    /\ buffer' = Resize(buffer, font.width * font.height)
    /\ pc' = "build"
    /\ UNCHANGED <<font, outline, reverse_fill, glyph>>
    /\ UNCHANGED build_idle

\* one turn of the loop, the packer returning Some(rect)
PlaceGlyph ==
    /\ pc = "build"
    /\ chi < Len(chars)
    /\ LET ch == chars[chi + 1]
           o  == FaceGlyphs[ch].outline
           g0 == Glyph_from_face(o, Padding)
       IN  \E rect \in PackerChoices(g0.width, g0.height) :
               LET g == [g0 EXCEPT !.x = rect.x, !.y = rect.y]
               IN  /\ packer' = packer \cup {rect}
                   /\ glyph' = g
                   /\ outline' = o
                   /\ reverse_fill' = FaceGlyphs[ch].reverse_fill
                   /\ buffer' = render_sdf(buffer, font.width, g, o,
                                           FaceGlyphs[ch].reverse_fill)
                   /\ font' = [font EXCEPT !.glyphs = Insert(@, ch, g)]
    /\ chi' = chi + 1
    /\ UNCHANGED <<chars, calls, pc>>
    /\ UNCHANGED build_idle

\* mutant: the glyph is recorded before the packer is asked
PackFailRecorded ==
    /\ pc = "build"
    /\ chi < Len(chars)
    /\ packer # {} \/ PackerChoices(Glyph_from_face(FaceGlyphs[chars[chi + 1]].outline, Padding).width,
                                   Glyph_from_face(FaceGlyphs[chars[chi + 1]].outline, Padding).height) = {}
    /\ font' = [font EXCEPT !.glyphs =
                   Insert(@, chars[chi + 1],
                          Glyph_from_face(FaceGlyphs[chars[chi + 1]].outline, Padding))]
    /\ pc' = "panic"
    /\ UNCHANGED <<buffer, chars, chi, packer, calls, outline, reverse_fill, glyph>>
    /\ UNCHANGED build_idle

\* one turn of the loop, the packer returning None: panic!("font texture not
\* large enough").  A packer with rectangles out may find no room where
\* there is some.
PackFail ==
    /\ pc = "build"
    /\ chi < Len(chars)
    /\ packer # {} \/ PackerChoices(Glyph_from_face(FaceGlyphs[chars[chi + 1]].outline, Padding).width,
                                   Glyph_from_face(FaceGlyphs[chars[chi + 1]].outline, Padding).height) = {}
    /\ pc' = "panic"
    /\ UNCHANGED <<buffer, font, chars, chi, packer, calls, outline, reverse_fill, glyph>>
    /\ UNCHANGED build_idle

\* the loop is over: build_from_face returns
BuildReturn ==
    /\ pc = "build"
    /\ chi = Len(chars)
    /\ pc' = "built"
    /\ UNCHANGED <<buffer, font, chars, chi, packer, calls, outline, reverse_fill, glyph>>
    /\ UNCHANGED build_idle

NextFont ==
    \/ \E cs \in CharLists : BuildFromFace(cs)
    \/ PlaceGlyph
    \/ PackFail
    \/ BuildReturn

SpecFont == InitFont /\ [][NextFont]_vars

----------------------------------------------------------------------------
(* Claims about the atlas, checked under SpecFont *)

\* the signed distance of the point q from the outline o: the distance to
\* the nearest segment, negative where the winding sum left of q has the
\* sign of the fill flag
SignedDistanceAt(o, rf, q) ==
    LET w == SignedCrossingsLeftOf(PushContours(<<>>, o, 1), q.x, q.y)
    IN  [neg |-> IF rf THEN w < 0 ELSE w > 0,
         sq  |-> OutlineDistance_distance(SegmentsOfContours(<<>>, o, 1), q)]

\* the rectangle of the glyph g holds, rows top-down, the quantized signed
\* distances of g's pixel centres from the outline o
HoldsGlyph(buf, pitch, g, o, rf) ==
    \A r \in 0..(g.height - 1) : \A c \in 0..(g.width - 1) :
        IsQuantized(buf[(g.y + r) * pitch + g.x + c],
                    SignedDistanceAt(o, rf,
                        Vec2(2 * (g.xmin + c) + 1,
                             2 * (g.ymin + (g.height - 1 - r)) + 1)))

\* C16: rows are written top-down: for every yr in [0, height) and xr in
\* [0, width) the byte at index (rect_y + yr) * pitch + rect_x + xr holds the
\* quantized value of the point (origin_x + xr, origin_y + (height - 1 - yr)).
C16_RowsTopDown ==
    glyph.width > 0 => HoldsGlyph(buffer, font.width, glyph, outline, reverse_fill)

\* the triangle, whose top and bottom rows differ, rendered away from the
\* atlas's first row and column
C16_Witness ==
    /\ glyph.x > 0 /\ glyph.y > 0
    /\ outline = FaceGlyphs["B"].outline
    /\ \E c \in 0..(glyph.width - 1) :
          buffer[glyph.y * font.width + glyph.x + c]
              # buffer[(glyph.y + glyph.height - 1) * font.width + glyph.x + c]

\* the rectangle of a glyph in the atlas
GlyphRect(g) == Rect(g.x, g.y, g.width, g.height)

InAtlas(r) ==
    /\ r.x >= 0 /\ r.y >= 0
    /\ r.x + r.width <= font.width
    /\ r.y + r.height <= font.height

\* the rectangles of the glyphs of the mapping
MappedRects == {GlyphRect(font.glyphs[ch]) : ch \in DOMAIN font.glyphs}

\* C17: in every state of a Font (after any sequence of builds that
\* complete, the packer never handing out overlapping rectangles within one
\* build) the rectangles of the glyphs in the mapping are pairwise
\* non-overlapping and each lies within the width x height buffer.
C17_GlyphRectanglesDisjoint ==
    pc = "built" =>
        /\ \A a, b \in DOMAIN font.glyphs :
              a # b => ~Overlap(GlyphRect(font.glyphs[a]), GlyphRect(font.glyphs[b]))
        /\ \A a \in DOMAIN font.glyphs : InAtlas(GlyphRect(font.glyphs[a]))

\* the characters of the chars argument
Requested == {chars[k] : k \in 1..Len(chars)}

\* the pixel at index i of the atlas lies in the rectangle r
PixelIn(i, r) ==
    /\ i % font.width >= r.x /\ i % font.width < r.x + r.width
    /\ i \div font.width >= r.y /\ i \div font.width < r.y + r.height

ZeroOutside(rects) ==
    \A i \in DOMAIN buffer : buffer[i] # 0 => \E r \in rects : PixelIn(i, r)

NoRepeats(cs) == \A j, k \in 1..Len(cs) : j # k => cs[j] # cs[k]

\* C18 as stated: after a build on a fresh Font from any character list whose
\* glyphs are all placed, every requested character has a Glyph in the
\* mapping, the buffer has side * side bytes and every pixel outside the
\* union of the rectangles of the glyphs in the mapping is zero.
C18_ZeroOutsideMappedRects ==
    pc = "built" /\ calls = 1 =>
        /\ Requested \subseteq DOMAIN font.glyphs
        /\ DOMAIN buffer = 0..(AtlasSide * AtlasSide - 1)
        /\ ZeroOutside(MappedRects)

\* C18 amended: the pixels outside the rectangles of the mapping are zero
\* when no character occurs twice in the list (a repeated character is
\* rendered each time, and the mapping keeps its last rectangle only).
C18_ZeroOutsideMappedRectsOfDistinctChars ==
    pc = "built" /\ calls = 1 =>
        /\ Requested \subseteq DOMAIN font.glyphs
        /\ DOMAIN buffer = 0..(AtlasSide * AtlasSide - 1)
        /\ NoRepeats(chars) => ZeroOutside(MappedRects)
        /\ ZeroOutside(packer)

\* the first build of a Font has placed and rendered two different glyphs
C18_Witness ==
    /\ pc = "built" /\ calls = 1
    /\ Len(chars) = 2 /\ NoRepeats(chars)
    /\ Cardinality(MappedRects) = 2
    /\ \A r \in MappedRects : \E i \in DOMAIN buffer : PixelIn(i, r) /\ buffer[i] # 0
    /\ \E i \in DOMAIN buffer : buffer[i] = 0 /\ \A r \in MappedRects : ~PixelIn(i, r)

----------------------------------------------------------------------------
(* Claims about degenerate segments, checked under SpecGlyph *)

IsFlat(sgt) == sgt.p0.y = sgt.p1.y

\* the segments with a Y extent
WithYExtent(segments) == SelectSeq(segments, LAMBDA sgt : ~IsFlat(sgt))

\* the profiles of the segments, pushed in order
RECURSIVE ProfilesOf(_, _)
ProfilesOf(profiles, segments) ==
    IF segments = <<>> THEN profiles
    ELSE ProfilesOf(push_line(profiles, Head(segments).p0, Head(segments).p1),
                    Tail(segments))

\* the squared distance of the point q from the horizontal segment sgt
FlatDistance(sgt, q) ==
    LET lo == IF sgt.p0.x < sgt.p1.x THEN sgt.p0.x ELSE sgt.p1.x
        hi == IF sgt.p0.x < sgt.p1.x THEN sgt.p1.x ELSE sgt.p0.x
        dx == IF q.x < lo THEN lo - q.x ELSE IF q.x > hi THEN q.x - hi ELSE 0
        dy == q.y - sgt.p0.y
    IN  RatOfInt(dx * dx + dy * dy)

\* C20 as stated: a segment with no Y extent is skipped by the pipeline: it
\* contributes no crossing to any scanline and never lowers the value
\* returned by OutlineDistance.distance.
C20_FlatSegmentsSkipped ==
    pc = "pixel" =>
        /\ crossings = scanline_crossings(ProfilesOf(<<>>, WithYExtent(linear_segments)), y)
        /\ dist_min.sq = OutlineDistance_distance(WithYExtent(linear_segments),
                                                  Vec2(F(glyph.xmin + xr) + Half, y))

\* C20 amended: a horizontal line contributes no crossing to any scanline,
\* but the distance index keeps it: the distance returned is never greater
\* than the distance to it.
C20_FlatSegmentsOnlyInDistance ==
    /\ Ingested =>
          \A sy \in AllScanlines :
              scanline_crossings(linear_profiles, sy)
                  = scanline_crossings(ProfilesOf(<<>>, WithYExtent(linear_segments)), sy)
    /\ pc = "pixel" =>
        /\ crossings = scanline_crossings(ProfilesOf(<<>>, WithYExtent(linear_segments)), y)
        /\ \A k \in 1..Len(linear_segments) :
              IsFlat(linear_segments[k]) =>
                  RatLeq(dist_min.sq,
                         FlatDistance(linear_segments[k], Vec2(F(glyph.xmin + xr) + Half, y)))

\* a pixel nearer to a horizontal line of the outline than to every other
\* segment: the horizontal line sets its distance
C20_Witness ==
    /\ pc = "pixel"
    /\ \E k \in 1..Len(linear_segments) :
          /\ IsFlat(linear_segments[k])
          /\ dist_min.sq = FlatDistance(linear_segments[k], Vec2(F(glyph.xmin + xr) + Half, y))
    /\ RatLt(dist_min.sq,
             OutlineDistance_distance(WithYExtent(linear_segments),
                                      Vec2(F(glyph.xmin + xr) + Half, y)))

----------------------------------------------------------------------------
(* mindist.rs: runs of the OutlineDistance API *)

\* end points of the pushed lines
LineEnds == {Vec2(F(0), F(0)), Vec2(F(10), F(0)), Vec2(F(0), F(6))}

\* end points of the pushed curves
CurveEnds == {Vec2(F(6), F(0)), Vec2(F(0), F(6))}

\* the arguments of distance
QueryPoints == {Vec2(F(5), F(3)), Vec2(F(-1), F(0)), Vec2(F(5), F(0)),
                Vec2(F(3), F(3)), Vec2(F(0), F(8)), Vec2(F(2), F(1))}

\* the point at k/n of the way from q0 to q1
Between(q0, q1, k, n) ==
    Vec2(q0.x + (k * (q1.x - q0.x)) \div n, q0.y + (k * (q1.y - q0.y)) \div n)

CurrentOutlineDistance == OutlineDistance(linear_segments, quadratic_segments, cubic_segments)

NumSegments == Len(linear_segments) + Len(quadratic_segments) + Len(cubic_segments)

\* what a run of the OutlineDistance API leaves alone
dist_idle == <<linear_profiles, y, crossings, outline, reverse_fill, glyph, ci, si,
               p0, yr, xr, crossings_idx, wn, inside, buffer, font_vars,
               quadratic_profiles, cubic_profiles, depth>>

\* OutlineDistance::new()
InitDist ==
    /\ linear_profiles = <<>>
    /\ y = 0
    /\ crossings = <<>>
    /\ pc = "mindist_new"
    /\ GlyphIdle

\* a call mindist.push_line(q0, q1)
DistPushLine(q0, q1) ==
    /\ NumSegments < MaxSegments
    /\ linear_segments' = OutlineDistance_push_line(CurrentOutlineDistance, q0, q1).linear_segments
    /\ pc' = "mindist_push_line"
    /\ mp' = Vec2(0, 0)
    /\ dist_min' = [neg |-> FALSE, sq |-> RatOfInt(0)]
    /\ UNCHANGED <<quadratic_segments, cubic_segments, dist_idle>>

\* a call mindist.push_bezier2(q0, q1, q2)
DistPushBezier2(q0, q1, q2) ==
    /\ NumSegments < MaxSegments
    /\ quadratic_segments' =
           OutlineDistance_push_bezier2(CurrentOutlineDistance, q0, q1, q2).quadratic_segments
    /\ pc' = "mindist_push_bezier2"
    /\ mp' = Vec2(0, 0)
    /\ dist_min' = [neg |-> FALSE, sq |-> RatOfInt(0)]
    /\ UNCHANGED <<linear_segments, cubic_segments, dist_idle>>

\* a call mindist.push_bezier3(q0, q1, q2, q3)
DistPushBezier3(q0, q1, q2, q3) ==
    /\ NumSegments < MaxSegments
    /\ cubic_segments' =
           OutlineDistance_push_bezier3(CurrentOutlineDistance, q0, q1, q2, q3).cubic_segments
    /\ pc' = "mindist_push_bezier3"
    /\ mp' = Vec2(0, 0)
    /\ dist_min' = [neg |-> FALSE, sq |-> RatOfInt(0)]
    /\ UNCHANGED <<linear_segments, quadratic_segments, dist_idle>>

\* a call mindist.distance(q)
Distance(q) ==
    /\ mp' = q
    /\ dist_min' = [neg |-> FALSE, sq |-> distance(CurrentOutlineDistance, q)]
    /\ pc' = "distance"
    /\ UNCHANGED <<linear_segments, quadratic_segments, cubic_segments, dist_idle>>

NextDist ==
    \/ \E q0, q1 \in LineEnds : DistPushLine(q0, q1)
    \/ \E q0, q2 \in CurveEnds : DistPushBezier2(q0, Between(q0, q2, 1, 2), q2)
    \/ \E q0, q3 \in CurveEnds :
          DistPushBezier3(q0, Between(q0, q3, 1, 3), Between(q0, q3, 2, 3), q3)
    \/ \E q \in QueryPoints : Distance(q)

SpecDist == InitDist /\ [][NextDist]_vars

----------------------------------------------------------------------------
(* Claim C21 *)

\* each pushed segment's own distance to q
OwnDistances(q) ==
    {LinearSegment_distance(linear_segments[i], q) : i \in 1..Len(linear_segments)}
    \cup {QuadraticSegment_distance(quadratic_segments[i], q) :
             i \in 1..Len(quadratic_segments)}
    \cup {CubicSegment_distance(cubic_segments[i], q) : i \in 1..Len(cubic_segments)}

\* the least of a set of distances, infinity for the empty set
RatMin(S) == IF S = {} THEN Infinity ELSE CHOOSE m \in S : \A n \in S : RatLeq(m, n)

\* w is v with one element appended
AppendsOne(v, w) == Len(w) = Len(v) + 1 /\ SubSeq(w, 1, Len(v)) = v

\* a push appends one segment, of the points it was given, to the vector
\* of its kind and leaves every other segment as it was
PushAppendsOneSegment ==
    /\ pc' = "mindist_push_line" =>
          /\ AppendsOne(linear_segments, linear_segments')
          /\ \E q0, q1 \in LineEnds :
                linear_segments'[Len(linear_segments')] = [p0 |-> q0, p1 |-> q1]
          /\ UNCHANGED <<quadratic_segments, cubic_segments>>
    /\ pc' = "mindist_push_bezier2" =>
          /\ AppendsOne(quadratic_segments, quadratic_segments')
          /\ \E q0, q2 \in CurveEnds :
                quadratic_segments'[Len(quadratic_segments')] =
                    [p0 |-> q0, p1 |-> Between(q0, q2, 1, 2), p2 |-> q2]
          /\ UNCHANGED <<linear_segments, cubic_segments>>
    /\ pc' = "mindist_push_bezier3" =>
          /\ AppendsOne(cubic_segments, cubic_segments')
          /\ \E q0, q3 \in CurveEnds :
                cubic_segments'[Len(cubic_segments')] =
                    [p0 |-> q0, p1 |-> Between(q0, q3, 1, 3),
                     p2 |-> Between(q0, q3, 2, 3), p3 |-> q3]
          /\ UNCHANGED <<linear_segments, quadratic_segments>>

\* C21: every push appends exactly one segment and leaves the earlier ones
\* unchanged, and distance(p) is the least of the pushed segments' own
\* distances to p (infinity when there is none): a value of the set of
\* pushed segments, whatever the order of the pushes.
C21_DistanceIsLeastOverPushedSegments ==
    /\ [](pc = "distance" => dist_min.sq = RatMin(OwnDistances(mp)))
    /\ [][PushAppendsOneSegment]_vars

\* a line and a curve were pushed, and the curve is the nearer to p
C21_Witness ==
    /\ pc = "distance"
    /\ Len(linear_segments) = 1
    /\ Len(quadratic_segments) + Len(cubic_segments) = 1
    /\ \E d \in OwnDistances(mp) :
          /\ RatLt(d, LinearSegment_distance(linear_segments[1], mp))
          /\ dist_min.sq = d

----------------------------------------------------------------------------
(* Claim C25 *)

\* the squared distance from q to the nearest point of the segment: to p0
\* or p1 when the foot of the perpendicular falls off the segment, and the
\* squared distance to the line through the segment otherwise
NearestOnSegment(sgt, q) ==
    LET m     == Sub(q, sgt.p0)
        a     == Sub(sgt.p1, sgt.p0)
        n     == Sub(q, sgt.p1)
        cross == m.x * a.y - m.y * a.x
    IN  IF Dot(m, a) <= 0 THEN RatOfInt(Dot(m, m))
        ELSE IF Dot(m, a) >= Dot(a, a) THEN RatOfInt(Dot(n, n))
        ELSE Rat(cross * cross, Dot(a, a))

\* q is a point of the segment
OnSegment(sgt, q) ==
    LET m == Sub(q, sgt.p0)
        a == Sub(sgt.p1, sgt.p0)
    IN  /\ m.x * a.y - m.y * a.x = 0
        /\ 0 <= Dot(m, a) /\ Dot(m, a) <= Dot(a, a)
        /\ Dot(a, a) = 0 => q = sgt.p0

\* the squared distance n, in the units of the coordinates
SquareOf(n) == RatOfInt(F(n) * F(n))

\* C25: the distance of a linear segment to p is the distance from p to the
\* nearest point of the segment; it is never negative and is 0 exactly when
\* p is on the segment; from the segment (0,0)-(10,0) it is 3 to (5,3) and
\* 1 to (-1,0).
C25_LinearDistanceToNearestPoint ==
    (pc = "distance" /\ Len(linear_segments) = 1 /\ NumSegments = 1) =>
        LET sgt == linear_segments[1]
            d   == dist_min.sq
        IN  /\ d = NearestOnSegment(sgt, mp)
            /\ d.num >= 0 /\ d.den > 0
            /\ d.num = 0 <=> OnSegment(sgt, mp)
            /\ sgt = [p0 |-> Vec2(F(0), F(0)), p1 |-> Vec2(F(10), F(0))] =>
                  /\ mp = Vec2(F(5), F(3)) => d = SquareOf(3)
                  /\ mp = Vec2(F(-1), F(0)) => d = SquareOf(1)

\* the distance from (0,0)-(10,0) to (-1,0), beyond the end of the segment
C25_Witness ==
    /\ pc = "distance" /\ Len(linear_segments) = 1 /\ NumSegments = 1
    /\ linear_segments[1] = [p0 |-> Vec2(F(0), F(0)), p1 |-> Vec2(F(10), F(0))]
    /\ mp = Vec2(F(-1), F(0))
    /\ dist_min.sq = SquareOf(1)

----------------------------------------------------------------------------
(* Claim C30 *)

\* a buffer of n bytes, all 255
FilledBuffer(n) == [i \in 0..(n - 1) |-> 255]

\* C30: a glyph whose outline has no segments gets the rectangle of
\* (2 * padding) x (2 * padding) pixels; no scanline of it has a crossing,
\* the distance from every pixel is +infinity and the pixel is outside, and
\* render_sdf returns having written 0 to every pixel of the rectangle.
C30_EmptyOutlineRendersZeros ==
    outline = <<>> =>
        /\ glyph.width = 2 * Padding /\ glyph.height = 2 * Padding
        /\ linear_profiles = <<>> /\ linear_segments = <<>>
        /\ pc \in {"row", "pixel"} => crossings = <<>>
        /\ pc = "pixel" =>
              /\ dist_min = [neg |-> FALSE, sq |-> Infinity]
              /\ buffer[(glyph.y + yr) * glyph.width + glyph.x + xr] = 0
        /\ pc = "done" =>
              LET n == (2 * Padding) * (2 * Padding)
              IN  /\ DOMAIN buffer = 0..(n - 1)
                  /\ \A i \in 0..(n - 1) : buffer[i] = 0
                  /\ render_sdf(FilledBuffer(n), glyph.width, glyph, outline, reverse_fill)
                        = buffer

\* render_sdf has returned from a glyph with no segments
C30_Witness ==
    /\ outline = <<>>
    /\ pc = "done"
    /\ yr = 2 * Padding - 1 /\ xr = 2 * Padding - 1
    /\ \A i \in DOMAIN buffer : buffer[i] = 0

----------------------------------------------------------------------------
(* rasterizer.rs, curve.rs: quadratic and cubic profiles.  The points of   *)
(* this part have rational coordinates, in pixels.                         *)

\* const EPS: f32 = 5e-5
EPS == Rat(1, 20000)

RatAbs(a) == [num |-> Abs(a.num), den |-> a.den]

\* a rational point
RPoint(x, yy) == Vec2(RatOfInt(x), RatOfInt(yy))

QuadraticProfile(dir, q0, q1, q2) == [dir |-> dir, p0 |-> q0, p1 |-> q1, p2 |-> q2]

CubicProfile(dir, q0, q1, q2, q3) ==
    [dir |-> dir, p0 |-> q0, p1 |-> q1, p2 |-> q2, p3 |-> q3]

\* Rasterizer::push_bezier2_monotonic
push_bezier2_monotonic(profiles, q0, q1, q2) ==
    IF RatLt(q0.y, q2.y) THEN Append(profiles, QuadraticProfile(1, q0, q1, q2))
    ELSE IF RatLt(q2.y, q0.y) THEN Append(profiles, QuadraticProfile(-1, q2, q1, q0))
    ELSE profiles

\* mutant: the curve is pushed whole, its Y extremum not looked for
push_bezier2_unsplit(profiles, q0, q1, q2) == push_bezier2_monotonic(profiles, q0, q1, q2)

\* mutant: a curve with a Y extremum is split at t = 1/2
push_bezier2_split_in_the_middle(profiles, q0, q1, q2) ==
    LET t == RatDiv(RatSub(q0.y, q1.y),
                    RatAdd(RatSub(q0.y, RatMul(RatOfInt(2), q1.y)), q2.y))
        h == Rat(1, 2)
    IN  IF is_finite(t) /\ RatLt(RatOfInt(0), t) /\ RatLt(t, RatOfInt(1))
        THEN LET m0 == lerp(q0, q1, h)
                 m1 == lerp(q1, q2, h)
                 n0 == lerp(m0, m1, h)
             IN  push_bezier2_monotonic(push_bezier2_monotonic(profiles, q0, m0, n0),
                                        n0, m1, q2)
        ELSE push_bezier2_monotonic(profiles, q0, q1, q2)

\* Rasterizer::push_bezier2
push_bezier2(profiles, q0, q1, q2) ==
    LET t == RatDiv(RatSub(q0.y, q1.y),
                    RatAdd(RatSub(q0.y, RatMul(RatOfInt(2), q1.y)), q2.y))
    IN  IF is_finite(t) /\ RatLt(RatOfInt(0), t) /\ RatLt(t, RatOfInt(1))
        THEN LET m0 == lerp(q0, q1, t)
                 m1 == lerp(q1, q2, t)
                 n0 == lerp(m0, m1, t)
             IN  push_bezier2_monotonic(push_bezier2_monotonic(profiles, q0, m0, n0),
                                        n0, m1, q2)
        ELSE push_bezier2_monotonic(profiles, q0, q1, q2)

\* Rasterizer::push_bezier3_monotonic, on the cubic profiles st.profiles
push_bezier3_monotonic(st, q0, q1, q2, q3) ==
    IF RatLt(q0.y, q3.y)
    THEN [st EXCEPT !.profiles = Append(@, CubicProfile(1, q0, q1, q2, q3))]
    ELSE IF RatLt(q3.y, q0.y)
    THEN [st EXCEPT !.profiles = Append(@, CubicProfile(-1, q3, q2, q1, q0))]
    ELSE st

\* the roots an extremum search keeps: finite and strictly inside (0, 1)
RECURSIVE Extrema(_)
Extrema(ts) ==
    IF ts = <<>> THEN <<>>
    ELSE LET t == Head(ts)
         IN  (IF is_finite(t) /\ RatLt(RatOfInt(0), t) /\ RatLt(t, RatOfInt(1))
              THEN <<t>> ELSE <<>>) \o Extrema(Tail(ts))

\* the coefficients a, b, c of push_bezier3
ExtremaEquation(q0, q1, q2, q3) ==
    [a |-> RatSub(RatAdd(RatSub(q3.y, RatMul(RatOfInt(3), q2.y)),
                         RatMul(RatOfInt(3), q1.y)), q0.y),
     b |-> RatMul(RatOfInt(2), RatAdd(RatSub(q2.y, RatMul(RatOfInt(2), q1.y)), q0.y)),
     c |-> RatSub(q1.y, q0.y)]

\* the points m0, m1, m2, n0, n1, o0 of the split at t (De Casteljau)
split_points(q0, q1, q2, q3, t) ==
    Only({Only({[m0 |-> m0, m1 |-> m1, m2 |-> m2, n0 |-> n0, n1 |-> n1,
                 o0 |-> lerp(n0, n1, t)] :
                  n0 \in {lerp(m0, m1, t)}, n1 \in {lerp(m1, m2, t)}}) :
            m0 \in {lerp(q0, q1, t)}, m1 \in {lerp(q1, q2, t)}, m2 \in {lerp(q2, q3, t)}})

\* the extrema of push_bezier3
found_extrema(q0, q1, q2, q3) ==
    Only({Extrema(find_roots_quadratic(e.a, e.b, e.c)) :
            e \in {ExtremaEquation(q0, q1, q2, q3)}})

\* st with the activation at this level counted
Entered(st, level) == [st EXCEPT !.depth = IF level > @ THEN level ELSE @]

\* mutant: the part after the first of two extrema is pushed as it is
push_bezier3_split_once(st, q0, q1, q2, q3, level) ==
    Only({
        IF Len(extrema) = 0
        THEN push_bezier3_monotonic(Entered(st, level), q0, q1, q2, q3)
        ELSE Only({
            push_bezier3_monotonic(
                push_bezier3_monotonic(Entered(st, level), q0, s.m0, s.n0, s.o0),
                s.o0, s.n1, s.m2, q3) :
            s \in {split_points(q0, q1, q2, q3, extrema[1])}}) :
        extrema \in {found_extrema(q0, q1, q2, q3)}})

\* Rasterizer::push_bezier3, on st = [profiles, depth]: the cubic profiles
\* and the deepest activation so far; level is the depth of this
\* activation, t1 = extrema[1] and t2 = extrema[2]
RECURSIVE push_bezier3(_, _, _, _, _, _)
push_bezier3(st, q0, q1, q2, q3, level) ==
    Only({
        IF Len(extrema) = 0
        THEN push_bezier3_monotonic(Entered(st, level), q0, q1, q2, q3)
        ELSE Only({
            IF Len(extrema) > 1
            THEN IF RatLt(extrema[1], extrema[2])
                 THEN push_bezier3(
                          push_bezier3_monotonic(Entered(st, level), q0, s.m0, s.n0, s.o0),
                          s.o0, s.n1, s.m2, q3, level + 1)
                 ELSE push_bezier3_monotonic(
                          push_bezier3(Entered(st, level), q0, s.m0, s.n0, s.o0, level + 1),
                          s.o0, s.n1, s.m2, q3)
            ELSE push_bezier3_monotonic(
                     push_bezier3_monotonic(Entered(st, level), q0, s.m0, s.n0, s.o0),
                     s.o0, s.n1, s.m2, q3) :
            s \in {split_points(q0, q1, q2, q3, extrema[1])}}) :
        extrema \in {found_extrema(q0, q1, q2, q3)}})

\* solve_quadratic_for_single_t finds a root t in [0, 1] of
\* a2 t^2 + a1 t + a0 = 0 among the real roots find_roots_quadratic returns:
\* decided from the signs at 0, 1 and the vertex, the roots not computed
QuadraticRootFound(a2, a1, a0) ==
    LET zero == RatOfInt(0)
        one  == RatOfInt(1)
        f1   == RatAdd(a2, RatAdd(a1, a0))
        v    == RatDiv(RatNeg(a1), RatMul(RatOfInt(2), a2))
        fv   == RatAdd(RatMul(RatAdd(RatMul(a2, v), a1), v), a0)
    IN  IF a2 = zero
        THEN IF a1 = zero THEN a0 = zero
             ELSE LET t == RatDiv(RatNeg(a0), a1)
                  IN  RatLeq(zero, t) /\ RatLeq(t, one)
        ELSE \/ Sign(a0.num) * Sign(f1.num) <= 0
             \/ /\ RatLeq(zero, v) /\ RatLeq(v, one)
                /\ Sign(fv.num) * Sign(a0.num) <= 0

\* solve_cubic_for_single_t finds a root t in [0, 1].  Below EPS the cubic
\* term is dropped.  A cubic proper has a root in [0, 1] when its values at
\* 0 and 1 differ in sign; scanline_crossings asks for no other equation
\* (its guard gives a0 <= 0 < a3 + a2 + a1 + a0).
CubicRootFound(a3, a2, a1, a0) ==
    IF RatLt(RatAbs(a3), EPS) THEN QuadraticRootFound(a2, a1, a0)
    ELSE IF Sign(a0.num) * Sign(RatAdd(RatAdd(a3, a2), RatAdd(a1, a0)).num) <= 0 THEN TRUE
    ELSE CHOOSE unasked \in {} : TRUE

\* quadratic_intersection, up to the root: its debug_assert and whether its
\* solver finds t
quadratic_intersection(sy, q0, q1, q2) ==
    [assert |-> RatLeq(q0.y, q1.y) /\ RatLeq(q1.y, q2.y),
     found  |-> QuadraticRootFound(
                    RatAdd(RatSub(q0.y, RatMul(RatOfInt(2), q1.y)), q2.y),
                    RatAdd(RatMul(RatOfInt(-2), q0.y), RatMul(RatOfInt(2), q1.y)),
                    RatSub(q0.y, sy))]

\* cubic_intersection, up to the root
cubic_intersection(sy, q0, q1, q2, q3) ==
    [assert |-> /\ RatLt(q0.y, RatAdd(q1.y, EPS))
                /\ RatLt(q1.y, RatAdd(q2.y, EPS))
                /\ RatLt(q2.y, RatAdd(q3.y, EPS)),
     found  |-> CubicRootFound(
                    RatAdd(RatSub(RatAdd(RatNeg(q0.y), RatMul(RatOfInt(3), q1.y)),
                                  RatMul(RatOfInt(3), q2.y)), q3.y),
                    RatAdd(RatSub(RatMul(RatOfInt(3), q0.y), RatMul(RatOfInt(6), q1.y)),
                           RatMul(RatOfInt(3), q2.y)),
                    RatAdd(RatMul(RatOfInt(-3), q0.y), RatMul(RatOfInt(3), q1.y)),
                    RatSub(q0.y, sy))]

\* the quadratic and cubic loops of scanline_crossings: the intersection
\* calls they make, in order, each with the dir of its profile
CurveCalls(quads, cubs, sy) ==
    LET qs == SelectSeq(quads, LAMBDA prf : RatLeq(prf.p0.y, sy) /\ RatLt(sy, prf.p2.y))
        cs == SelectSeq(cubs, LAMBDA prf : RatLeq(prf.p0.y, sy) /\ RatLt(sy, prf.p3.y))
    IN  [i \in 1..Len(qs) |->
            [dir |-> qs[i].dir,
             res |-> quadratic_intersection(sy, qs[i].p0, qs[i].p1, qs[i].p2)]]
        \o [i \in 1..Len(cs) |->
            [dir |-> cs[i].dir,
             res |-> cubic_intersection(sy, cs[i].p0, cs[i].p1, cs[i].p2, cs[i].p3)]]

\* how scanline_crossings ends: at the first call whose debug_assert fails
\* (a build with debug assertions) or whose solver finds no root, else by
\* returning
RECURSIVE Outcome(_, _)
Outcome(calls_made, debug) ==
    IF calls_made = <<>> THEN "scanline_crossings"
    ELSE LET r == Head(calls_made).res
         IN  IF debug /\ ~r.assert THEN "panic_debug_assert"
             ELSE IF ~r.found THEN "panic_root_not_found"
             ELSE Outcome(Tail(calls_made), debug)

----------------------------------------------------------------------------
(* runs of the Rasterizer API on curves *)

\* the Y of the control points of the pushed quadratic curves
QuadraticYs == {<<a, b, c>> : a \in {0, 3}, b, c \in 0..3}

\* the Y of the control points of the pushed cubic curves: with no, one
\* (1/2), a double (1/2) and two (1/3, 2/3) Y extrema inside (0, 1), with
\* control points out of order on a rising curve, and with a cubic term
\* below EPS
CubicYs ==
    {<<RatOfInt(0), RatOfInt(1), RatOfInt(2), RatOfInt(3)>>,
     <<RatOfInt(3), RatOfInt(2), RatOfInt(1), RatOfInt(0)>>,
     <<RatOfInt(0), RatOfInt(2), RatOfInt(1), RatOfInt(3)>>,
     <<RatOfInt(0), RatOfInt(3), RatOfInt(3), RatOfInt(0)>>,
     <<RatOfInt(0), RatOfInt(3), RatOfInt(0), RatOfInt(3)>>,
     <<RatOfInt(0), RatOfInt(4), RatOfInt(-1), RatOfInt(3)>>,
     <<RatOfInt(3), RatOfInt(-1), RatOfInt(4), RatOfInt(0)>>,
     <<RatOfInt(1), RatOfInt(1), RatOfInt(1), RatOfInt(1)>>,
     <<RatOfInt(0), RatOfInt(1), RatOfInt(2), Rat(63001, 21000)>>}

\* the scanlines asked for
CurveScanlines ==
    {Rat(k, 4) : k \in {0, 2, 6, 9, 10, 12}} \cup {Rat(90001, 30000)}

\* what a run on curves leaves alone
curve_idle == <<linear_profiles, linear_segments, outline, reverse_fill, glyph, ci, si,
                p0, yr, xr, crossings_idx, wn, inside, dist_min, buffer, font_vars,
                quadratic_segments, cubic_segments, mp>>

NumCurveProfiles == Len(quadratic_profiles) + Len(cubic_profiles)

\* Rasterizer::new()
InitCurve ==
    /\ linear_profiles = <<>>
    /\ y = RatOfInt(0)
    /\ crossings = <<>>
    /\ pc = "new"
    /\ GlyphIdle

\* a call rasterizer.push_bezier2(q0, q1, q2); the curves are pushed before
\* the scanlines are asked for, as render_sdf does
PushBezier2(q0, q1, q2) ==
    /\ pc \in {"new", "push_bezier2", "push_bezier3"}
    /\ NumCurveProfiles < MaxCurveProfiles
    /\ quadratic_profiles' = push_bezier2(quadratic_profiles, q0, q1, q2)
    /\ depth' = 0
    /\ y' = RatOfInt(0)
    /\ crossings' = <<>>
    /\ pc' = "push_bezier2"
    /\ UNCHANGED <<cubic_profiles, curve_idle>>

\* a call rasterizer.push_bezier3(q0, q1, q2, q3)
PushBezier3(q0, q1, q2, q3) ==
    /\ pc \in {"new", "push_bezier2", "push_bezier3"}
    /\ NumCurveProfiles < MaxCurveProfiles
    /\ LET st == push_bezier3([profiles |-> cubic_profiles, depth |-> 0],
                              q0, q1, q2, q3, 1)
       IN  /\ cubic_profiles' = st.profiles
           /\ depth' = st.depth
    /\ y' = RatOfInt(0)
    /\ crossings' = <<>>
    /\ pc' = "push_bezier3"
    /\ UNCHANGED <<quadratic_profiles, curve_idle>>

\* a call rasterizer.scanline_crossings(sy), in a build with (debug) or
\* without debug assertions.  Of a crossing of a curve the model keeps the
\* dir: its x is the curve at the root, which this part does not compute.
CurveScanlineCrossings(sy, debug) ==
    /\ pc \notin {"panic_debug_assert", "panic_root_not_found"}
    /\ LET calls_made == CurveCalls(quadratic_profiles, cubic_profiles, sy)
           end        == Outcome(calls_made, debug)
       IN  /\ pc' = end
           /\ crossings' = IF end = "scanline_crossings"
                            THEN [i \in 1..Len(calls_made) |-> [dir |-> calls_made[i].dir]]
                            ELSE <<>>
    /\ y' = sy
    /\ depth' = 0
    /\ UNCHANGED <<quadratic_profiles, cubic_profiles, curve_idle>>

NextCurve ==
    \/ \E ys \in QuadraticYs :
          PushBezier2(RPoint(0, ys[1]), RPoint(1, ys[2]), RPoint(2, ys[3]))
    \/ \E ys \in CubicYs :
          PushBezier3(Vec2(RatOfInt(0), ys[1]), Vec2(RatOfInt(1), ys[2]),
                      Vec2(RatOfInt(2), ys[3]), Vec2(RatOfInt(3), ys[4]))
    \/ \E sy \in CurveScanlines, debug \in BOOLEAN : CurveScanlineCrossings(sy, debug)

SpecCurve == InitCurve /\ [][NextCurve]_vars

----------------------------------------------------------------------------
(* Claim C22 *)

\* y(t) of a quadratic profile does not decrease on [0, 1]: its derivative
\* 2 ((1 - t) d0 + t d1) is linear, so it is enough at t = 0 and t = 1
QuadraticRising(prf) ==
    /\ RatLeq(RatOfInt(0), RatSub(prf.p1.y, prf.p0.y))
    /\ RatLeq(RatOfInt(0), RatSub(prf.p2.y, prf.p1.y))

\* y(t) of a cubic profile does not decrease on [0, 1]: its derivative is
\* 3 (A t^2 + B t + C), which is least at 0, at 1, or at its vertex v when
\* A > 0 and 0 < v < 1, where its value is C + B v / 2
CubicRising(prf) ==
    LET d0 == RatSub(prf.p1.y, prf.p0.y)
        d1 == RatSub(prf.p2.y, prf.p1.y)
        d2 == RatSub(prf.p3.y, prf.p2.y)
        A  == RatAdd(RatSub(d0, RatMul(RatOfInt(2), d1)), d2)
        B  == RatMul(RatOfInt(2), RatSub(d1, d0))
        v  == RatDiv(RatNeg(B), RatMul(RatOfInt(2), A))
    IN  /\ RatLeq(RatOfInt(0), d0)
        /\ RatLeq(RatOfInt(0), d2)
        /\ (RatLt(RatOfInt(0), A) /\ RatLt(RatOfInt(0), v) /\ RatLt(v, RatOfInt(1))) =>
              RatLeq(RatOfInt(0), RatAdd(d0, RatMul(RatMul(B, v), Rat(1, 2))))

\* C22: every stored quadratic and cubic profile is Y-monotonic: y(t) does
\* not decrease as t goes from 0 to 1.
C22_StoredCurvesAreYMonotonic ==
    /\ \A i \in 1..Len(quadratic_profiles) : QuadraticRising(quadratic_profiles[i])
    /\ \A i \in 1..Len(cubic_profiles) : CubicRising(cubic_profiles[i])

\* a cubic with two Y extrema was pushed and is stored as three profiles
C22_Witness ==
    /\ pc = "push_bezier3"
    /\ Len(cubic_profiles) = 3
    /\ \A i \in 1..3 : CubicRising(cubic_profiles[i])

----------------------------------------------------------------------------
(* Claim C23 *)

\* C23: every stored profile has its control points in Y order: a linear
\* profile has p0.y < p1.y, a quadratic profile p0.y < p1.y and p1.y < p2.y,
\* a cubic profile p0.y <= p1.y <= p2.y <= p3.y within EPS.
C23_ControlPointsInYOrder ==
    /\ \A i \in 1..Len(linear_profiles) :
          linear_profiles[i].p0.y < linear_profiles[i].p1.y
    /\ \A i \in 1..Len(quadratic_profiles) :
          LET prf == quadratic_profiles[i]
          IN  RatLt(prf.p0.y, prf.p1.y) /\ RatLt(prf.p1.y, prf.p2.y)
    /\ \A i \in 1..Len(cubic_profiles) :
          LET prf == cubic_profiles[i]
          IN  /\ RatLeq(prf.p0.y, RatAdd(prf.p1.y, EPS))
              /\ RatLeq(prf.p1.y, RatAdd(prf.p2.y, EPS))
              /\ RatLeq(prf.p2.y, RatAdd(prf.p3.y, EPS))

----------------------------------------------------------------------------
(* Claim C24 *)

\* C24: scanline_crossings never ends in "root not found" on profiles
\* stored by the push methods: for every stored quadratic or cubic profile
\* and every scanline in its Y range the solver finds a t in [0, 1].
C24_RootAlwaysFound ==
    /\ pc # "panic_root_not_found"
    /\ \A sy \in CurveScanlines :
          LET calls_made == CurveCalls(quadratic_profiles, cubic_profiles, sy)
          IN  \A i \in 1..Len(calls_made) : calls_made[i].res.found

----------------------------------------------------------------------------
(* Claim C29 *)

\* C29: the debug_assert of quadratic_intersection and of cubic_intersection
\* holds on every call scanline_crossings makes, also for a cubic stored
\* unsplit because it has no Y extremum inside (0, 1).
C29_DebugAssertsHold ==
    /\ pc # "panic_debug_assert"
    /\ \A sy \in CurveScanlines :
          LET calls_made == CurveCalls(quadratic_profiles, cubic_profiles, sy)
          IN  \A i \in 1..Len(calls_made) : calls_made[i].res.assert

----------------------------------------------------------------------------
(* Claim C27 *)

\* the extremum parameter t_e of a quadratic curve
ExtremumParameter(q0, q1, q2) ==
    RatDiv(RatSub(q0.y, q1.y), RatAdd(RatSub(q0.y, RatMul(RatOfInt(2), q1.y)), q2.y))

\* the point of the quadratic curve at t, by its Bernstein form
QuadraticPoint(q0, q1, q2, t) ==
    LET tc == RatSub(RatOfInt(1), t)
        w0 == RatMul(tc, tc)
        w1 == RatMul(RatOfInt(2), RatMul(tc, t))
        w2 == RatMul(t, t)
    IN  Vec2(RatAdd(RatAdd(RatMul(w0, q0.x), RatMul(w1, q1.x)), RatMul(w2, q2.x)),
             RatAdd(RatAdd(RatMul(w0, q0.y), RatMul(w1, q1.y)), RatMul(w2, q2.y)))

\* the point a + t (b - a)
Along(a, b, t) ==
    Vec2(RatAdd(a.x, RatMul(t, RatSub(b.x, a.x))), RatAdd(a.y, RatMul(t, RatSub(b.y, a.y))))

\* the profile stored for a piece: rising as given, falling reversed, none
\* for a piece that ends at the Y it starts from
StoredQuadratic(q0, q1, q2) ==
    IF RatLt(q0.y, q2.y) THEN <<[dir |-> 1, p0 |-> q0, p1 |-> q1, p2 |-> q2]>>
    ELSE IF RatLt(q2.y, q0.y) THEN <<[dir |-> -1, p0 |-> q2, p1 |-> q1, p2 |-> q0]>>
    ELSE <<>>

\* C27: push_bezier2 computes t_e = (p0.y - p1.y) / (p0.y - 2 p1.y + p2.y);
\* when t_e is finite and strictly inside (0, 1) it pushes the two halves of
\* the curve split at t_e, the first ending at the very point the second
\* starts from; otherwise it pushes the curve unsplit, storing at most one
\* profile.
C27_QuadraticSplitAtExtremum ==
    \A ys \in QuadraticYs :
        LET q0  == RPoint(0, ys[1])
            q1  == RPoint(1, ys[2])
            q2  == RPoint(2, ys[3])
            t   == ExtremumParameter(q0, q1, q2)
            n   == QuadraticPoint(q0, q1, q2, t)
            res == push_bezier2(quadratic_profiles, q0, q1, q2)
        IN  IF is_finite(t) /\ RatLt(RatOfInt(0), t) /\ RatLt(t, RatOfInt(1))
            THEN res = quadratic_profiles
                       \o StoredQuadratic(q0, Along(q0, q1, t), n)
                       \o StoredQuadratic(n, Along(q1, q2, t), q2)
            ELSE /\ res = quadratic_profiles \o StoredQuadratic(q0, q1, q2)
                 /\ Len(res) <= Len(quadratic_profiles) + 1

\* a curve with a Y maximum was pushed: its two halves are stored, both
\* ending at the split point
C27_Witness ==
    /\ pc = "push_bezier2"
    /\ Len(quadratic_profiles) = 2
    /\ quadratic_profiles[1].dir = 1 /\ quadratic_profiles[2].dir = -1
    /\ quadratic_profiles[1].p2 = quadratic_profiles[2].p2
    /\ quadratic_profiles[1].p1.y = quadratic_profiles[1].p2.y

----------------------------------------------------------------------------
(* Claim C28 *)

\* the blossom of the cubic curve at (u, v, w): De Casteljau's steps with a
\* parameter of their own each
Blossom(q0, q1, q2, q3, u, v, w) ==
    Along(Along(Along(q0, q1, u), Along(q1, q2, u), v),
          Along(Along(q1, q2, u), Along(q2, q3, u), v), w)

\* the profile stored for the piece of the curve between the parameters a
\* and b
StoredPiece(q0, q1, q2, q3, a, b) ==
    LET r0 == Blossom(q0, q1, q2, q3, a, a, a)
        r1 == Blossom(q0, q1, q2, q3, a, a, b)
        r2 == Blossom(q0, q1, q2, q3, a, b, b)
        r3 == Blossom(q0, q1, q2, q3, b, b, b)
    IN  IF RatLt(r0.y, r3.y)
        THEN <<[dir |-> 1, p0 |-> r0, p1 |-> r1, p2 |-> r2, p3 |-> r3]>>
        ELSE IF RatLt(r3.y, r0.y)
        THEN <<[dir |-> -1, p0 |-> r3, p1 |-> r2, p2 |-> r1, p3 |-> r0]>>
        ELSE <<>>

====
